---- MODULE Spec2Model ----
(***************************************************************************)
(* The reservation lifecycle engine of AssetManagement (AssetMan.py and    *)
(* services/rental_service.py) as a state machine.  One action is one HTTP *)
(* request handled to completion: the handler loads the rental, works on   *)
(* the loaded objects and commits; a request that raises HTTPException     *)
(* commits nothing (db/deps.py closes the session), so it changes only the *)
(* response.  Requests are served one at a time: res is the response in    *)
(* flight, and the next request starts once it has been delivered.         *)
(* Dates are day numbers; None is 0 for dates and instance ids.            *)
(* The audit log, the employee directory and the session layer are outside *)
(* the engine and are not part of the state.                               *)
(***************************************************************************)
EXTENDS Integers, Sequences, FiniteSets, TLC

\* ---- bounds of the model -------------------------------------------------
MaxRentals == 2
MaxDate == 2
MaxDay == 2
MaxQty == 2
MaxLines == 4
MaxNotif == 3
MaxReqLines == 1
MaxMarks == 1
MaxRemaining == 5
MaxRequests == 2
MaxNow == 1500
ClockStep == 300
MaxTokens == 1
MaxSessions == 2
SessionStep == 21600
MaxSessionNow == 64800

\* ---- login guard and sessions: AssetMan.py 132-135, user_access_service.py 16
AUTH_ATTEMPT_WINDOW_SECONDS == 300
AUTH_MAX_ATTEMPTS_PER_IP == 50
AUTH_MAX_ATTEMPTS_PER_ACCOUNT == 8
AUTH_LOCKOUT_SECONDS == 900
SESSION_TTL_SECONDS == 43200

\* ---- the catalogue (Tool and ToolInstance rows; maintained by the ---------
\* ---- equipment service, read-only for the engine) ------------------------
Tools == {1}

Instances == {1, 2, 3}

ToolOf(i) == 1

RequiresCertification(i) == i \in {2, 3}

\* 0 is None: instance 3 requires certification and has no calibration date.
NextCalibration(i) == IF i = 2 THEN 1 ELSE 0

DailyRentalCost(t) == 3

CurrentValue(t) == 100

\* ---- state ---------------------------------------------------------------
VARIABLES rentals, items, instStatus, notifications, today, res,
          inflight, now,
          _AUTH_ATTEMPTS_BY_IP, _AUTH_ATTEMPTS_BY_ACCOUNT, _AUTH_LOCKOUT_UNTIL_BY_ACCOUNT,
          _SESSIONS, revoked, issued,
          loggedOut,
          _EMPLOYEE_CACHE, _CACHE_EXPIRES_AT

\* The login guard and the session registry (AssetMan.py 137-140,
\* services/user_access_service.py): process memory and the revocation file.
auth == <<now, _AUTH_ATTEMPTS_BY_IP, _AUTH_ATTEMPTS_BY_ACCOUNT,
          _AUTH_LOCKOUT_UNTIL_BY_ACCOUNT, _SESSIONS, revoked, issued,
          loggedOut>>

\* What a rental request that runs alone from its first read to its last
\* commit leaves alone: the requests that are between two of their steps,
\* the login guard and sessions, and the employee directory as the process
\* remembers it (services/employee_directory_service.py 15-17): the
\* normalized numbers of the cached entries and the time the cache expires.
outside == <<inflight, auth, _EMPLOYEE_CACHE, _CACHE_EXPIRES_AT>>

vars == <<rentals, items, instStatus, notifications, today, res, inflight, auth,
          _EMPLOYEE_CACHE, _CACHE_EXPIRES_AT>>

\* The client addresses and the account keys of the login requests.  A key
\* without recorded attempts holds the empty list, one without a lockout 0.
Ips == {"10.0.0.1"}

Accounts == {"user:admin", "user:guest"}

\* No request is under way, nobody has tried to log in, no token is issued.
InitOutside ==
    /\ inflight = <<>>
    /\ now = 0
    /\ _AUTH_ATTEMPTS_BY_IP = [ip \in Ips |-> <<>>]
    /\ _AUTH_ATTEMPTS_BY_ACCOUNT = [key \in Accounts |-> <<>>]
    /\ _AUTH_LOCKOUT_UNTIL_BY_ACCOUNT = [key \in Accounts |-> 0]
    /\ _SESSIONS = {}
    /\ revoked = {}
    /\ issued = {}
    /\ loggedOut = {}
    /\ _EMPLOYEE_CACHE = {}
    /\ _CACHE_EXPIRES_AT = 0

db == <<rentals, items, instStatus, notifications>>

\* ---- vocabulary (AssetMan.py 107-121) ------------------------------------
STATE_ALIASES == [Pending |-> "Reserved", Approved |-> "Reserved"]

RESERVATION_STATES == {"Offer", "Reserved", "Active", "Overdue", "Returned", "Closed"}

\* The terminal states with Returned among them.
TERMINAL_STATES_returned == {"Closed", "Cancelled", "Lost", "Returned"}

TERMINAL_STATES == {"Closed", "Cancelled", "Lost"}

BLOCKING_STATES == {"Reserved", "Active", "Overdue"}

STATE_TRANSITIONS ==
    [Offer |-> {"Reserved", "Closed"},
     Reserved |-> {"Active", "Closed"},
     Active |-> {"Overdue", "Returned", "Closed"},
     Overdue |-> {"Active", "Returned", "Closed"},
     Returned |-> {"Closed"},
     Closed |-> {}]

Max(a, b) == IF a >= b THEN a ELSE b

\* (raw or "Reserved").strip(), then the alias table.
_normalize_state(raw) ==
    LET state == IF raw = "" THEN "Reserved" ELSE raw
    IN IF state \in DOMAIN STATE_ALIASES THEN STATE_ALIASES[state] ELSE state

\* _apply_runtime_state promoting a rental that ends today.
_apply_runtime_state_due(rental) ==
    LET current == _normalize_state(rental.Status)
    IN IF current = "Active" /\ rental.EndDate # 0 /\ rental.EndDate <= today
       THEN "Overdue"
       ELSE current

\* The status _apply_runtime_state leaves on the loaded rental (and returns).
_apply_runtime_state(rental) ==
    LET current == _normalize_state(rental.Status)
        known_states == {STATE_ALIASES[a] : a \in DOMAIN STATE_ALIASES}
                            \cup RESERVATION_STATES \cup TERMINAL_STATES
    IN IF current = "Active" /\ rental.EndDate # 0 /\ rental.EndDate < today
       THEN "Overdue"
       ELSE IF current \in known_states THEN current ELSE rental.Status

\* _transition_state on a stored status: ok, the status afterwards, and the
\* error detail "Invalid state transition: current -> target".
_transition_state(Status, target_state) ==
    LET current == _normalize_state(Status)
        target == _normalize_state(target_state)
    IN IF target = current
       THEN [ok |-> TRUE, Status |-> Status, detail |-> "", states |-> <<>>]
       ELSE IF current \notin DOMAIN STATE_TRANSITIONS
                \/ target \notin STATE_TRANSITIONS[current]
            THEN [ok |-> FALSE, Status |-> Status,
                  detail |-> "Invalid state transition", states |-> <<current, target>>]
            ELSE [ok |-> TRUE, Status |-> target, detail |-> "", states |-> <<>>]

\* The elements of a set of line ids in ascending order.
RECURSIVE SetToSeq(_)
SetToSeq(S) ==
    IF S = {} THEN <<>>
    ELSE LET m == CHOOSE x \in S : \A y \in S : x <= y
         IN <<m>> \o SetToSeq(S \ {m})

\* ---- loaded objects ------------------------------------------------------
\* rental.RentalItems as loaded by selectinload: the ids of the rental's lines.
RentalItems(its, rid) == {k \in 1..Len(its) : its[k].RentalID = rid}

Response(op, rid, code, detail) ==
    [op |-> op, rid |-> rid, code |-> code, detail |-> detail,
     states |-> <<>>, numbers |-> <<>>, ids |-> <<>>]

NoResponse == Response("none", 0, 0, "")

\* A request that raised: nothing is committed.
Fail(op, rid, code, detail) ==
    /\ res' = Response(op, rid, code, detail)
    /\ UNCHANGED <<rentals, items, instStatus, notifications, today>>

\* _transition_state raised: the detail names the source and the target.
TransitionFail(op, rid, t) ==
    /\ res' = [Response(op, rid, 400, t.detail) EXCEPT !.states = t.states]
    /\ UNCHANGED <<rentals, items, instStatus, notifications, today>>

\* services/rental_service.py recalc_total_cost over the loaded lines `ids`
\* of `its`; returns the lines and the rental total.
RECURSIVE SumLines(_, _, _)
SumLines(its, ids, days) ==
    IF ids = {} THEN 0
    ELSE LET k == CHOOSE x \in ids : TRUE
         IN its[k].DailyCost * days * its[k].Quantity + SumLines(its, ids \ {k}, days)

recalc_total_cost(rental, its, ids) ==
    IF ids = {}
    THEN [TotalCost |-> 0, items |-> its]
    ELSE LET d == rental.EndDate - rental.StartDate
             rental_days == IF d < 1 THEN 1 ELSE d
         IN [TotalCost |-> SumLines(its, ids, rental_days),
             items |-> [k \in 1..Len(its) |->
                          IF k \in ids
                          THEN [its[k] EXCEPT !.TotalCost =
                                   its[k].DailyCost * rental_days * its[k].Quantity]
                          ELSE its[k]]]

\* ---- numbering (services/rental_service.py 12-49) ------------------------
\* RNT-nnn: one more than the number of the latest RNT rental.
generate_rental_number ==
    LET rnt == {r \in 1..Len(rentals) : rentals[r].RentalNumber[1] = "RNT"}
    IN IF rnt = {} THEN <<"RNT", 1>>
       ELSE <<"RNT", rentals[CHOOSE r \in rnt : \A q \in rnt : q <= r].RentalNumber[2] + 1>>

\* yynnnn: one more than the largest suffix of this year's offer numbers.
generate_offer_number ==
    LET off == {r \in 1..Len(rentals) : rentals[r].RentalNumber[1] = "YY"}
    IN IF off = {} THEN <<"YY", 1>>
       ELSE <<"YY", (CHOOSE n \in {rentals[r].RentalNumber[2] : r \in off} :
                        \A r \in off : rentals[r].RentalNumber[2] <= n) + 1>>

\* ---- create --------------------------------------------------------------
\* dailyCost -1 stands for an absent dailyCost.
ReqLine == [toolID : Tools \cup {0}, quantity : 0..MaxQty, dailyCost : {-1}]

ReqLines == UNION {[1..n -> ReqLine] : n \in 0..MaxReqLines}

\* The request lines create_rental appends (1033-1059): unassigned, quantity
\* max(1, quantity or 1), the tool's daily rate as the cost snapshot.
NewRequestLines(rid, initial_status, req) ==
    [k \in 1..Len(req) |->
        [RentalID |-> rid,
         ToolID |-> req[k].toolID,
         ToolInstanceID |-> 0,
         Quantity |-> Max(1, IF req[k].quantity = 0 THEN 1 ELSE req[k].quantity),
         DailyCost |-> IF req[k].dailyCost # -1 THEN req[k].dailyCost
                       ELSE DailyRentalCost(req[k].toolID),
         TotalCost |-> 0,
         state |-> IF initial_status = "Offer" THEN "Offer" ELSE "Pending Approval"]]

\* The outcome of create_rental on a payload: an error, or the committed rows.
CreateOutcome(status, startDate, endDate, req) ==
    LET initial_status == _normalize_state(status)
        rid == Len(rentals) + 1
        lines == NewRequestLines(rid, initial_status, req)
        rental == [Status |-> initial_status,
                   StartDate |-> startDate,
                   EndDate |-> endDate,
                   ActualStart |-> 0,
                   ActualEnd |-> 0,
                   TotalCost |-> 0,
                   LossAmount |-> -1,
                   RentalNumber |-> IF initial_status = "Offer"
                                    THEN generate_offer_number
                                    ELSE generate_rental_number]
        all == items \o lines
        cost == recalc_total_cost(rental, all, RentalItems(all, rid))
    IN IF endDate < startDate
       THEN [ok |-> FALSE, detail |-> "endDate must be on or after startDate."]
       ELSE IF initial_status \notin {"Offer", "Reserved"}
       THEN [ok |-> FALSE, detail |-> "Initial status must be Offer or Reserved."]
       ELSE IF \E k \in 1..Len(req) : req[k].toolID \notin Tools
       THEN [ok |-> FALSE, detail |-> "Tool not found."]
       ELSE [ok |-> TRUE, detail |-> "created", rid |-> rid,
             rentals |-> Append(rentals, [rental EXCEPT !.TotalCost = cost.TotalCost]),
             items |-> cost.items]

create_rental(status, startDate, endDate, req) ==
    LET out == CreateOutcome(status, startDate, endDate, req)
    IN /\ res = NoResponse /\ UNCHANGED outside
       /\ Len(items) + Len(req) <= MaxLines
       /\ IF out.ok
          THEN /\ rentals' = out.rentals
               /\ items' = out.items
               /\ res' = Response("create_rental", out.rid, 200, out.detail)
               /\ UNCHANGED <<instStatus, notifications, today>>
          ELSE Fail("create_rental", 0, 400, out.detail)

\* ---- reads ---------------------------------------------------------------
\* get_rental (807-821): the runtime state is applied and committed.
get_rental(rid) ==
    /\ res = NoResponse /\ UNCHANGED outside
    /\ IF rid > Len(rentals)
       THEN Fail("get_rental", rid, 404, "Rental not found")
       ELSE /\ rentals' = [rentals EXCEPT ![rid].Status = _apply_runtime_state(rentals[rid])]
            /\ res' = Response("get_rental", rid, 200, rentals'[rid].Status)
            /\ UNCHANGED <<items, instStatus, notifications, today>>

\* get_rentals (791-804): the same for every rental.
get_rentals ==
    /\ res = NoResponse /\ UNCHANGED outside
    /\ rentals' = [r \in 1..Len(rentals) |->
                      [rentals[r] EXCEPT !.Status = _apply_runtime_state(rentals[r])]]
    /\ res' = Response("get_rentals", 0, 200, "list")
    /\ UNCHANGED <<items, instStatus, notifications, today>>

\* ---- resolver and ranker -------------------------------------------------
\* Ranges that share only a day do not overlap.
Overlaps_strict(rental, start_date, end_date) ==
    rental.StartDate < end_date /\ rental.EndDate > start_date

\* rental.StartDate <= end_date and rental.EndDate >= start_date (2334-2335)
Overlaps(rental, start_date, end_date) ==
    rental.StartDate <= end_date /\ rental.EndDate >= start_date

\* _has_instance_overlap counting the lines of the excluded rental too.
_has_instance_overlap_own(tool_instance_id, start_date, end_date, exclude_rental_id) ==
    \E k \in 1..Len(items) :
        /\ items[k].ToolInstanceID = tool_instance_id
        /\ Overlaps(rentals[items[k].RentalID], start_date, end_date)
        /\ _normalize_state(rentals[items[k].RentalID].Status) \in BLOCKING_STATES

\* _has_instance_overlap (2321-2342); exclude_rental_id 0 is None.
_has_instance_overlap(tool_instance_id, start_date, end_date, exclude_rental_id) ==
    \E k \in 1..Len(items) :
        /\ items[k].ToolInstanceID = tool_instance_id
        /\ Overlaps(rentals[items[k].RentalID], start_date, end_date)
        /\ (exclude_rental_id # 0 => items[k].RentalID # exclude_rental_id)
        /\ _normalize_state(rentals[items[k].RentalID].Status) \in BLOCKING_STATES

\* _get_available_instances comparing the stored status, not the normalized one.
_get_available_instances_raw(tool_id, start_date, end_date) ==
    {i \in Instances :
        /\ ToolOf(i) = tool_id
        /\ instStatus[i] = "Available"
        /\ ~\E j \in 1..Len(items) :
               /\ items[j].ToolID = tool_id
               /\ items[j].ToolInstanceID = i
               /\ Overlaps(rentals[items[j].RentalID], start_date, end_date)
               /\ rentals[items[j].RentalID].Status \in BLOCKING_STATES
        /\ (RequiresCertification(i) =>
               NextCalibration(i) # 0 /\ NextCalibration(i) >= end_date)}

\* _get_available_instances (2345-2385), as the set of the returned ids.
_get_available_instances(tool_id, start_date, end_date) ==
    LET busy_ids == {items[k].ToolInstanceID : k \in {j \in 1..Len(items) :
                        /\ items[j].ToolID = tool_id
                        /\ items[j].ToolInstanceID # 0
                        /\ Overlaps(rentals[items[j].RentalID], start_date, end_date)
                        /\ _normalize_state(rentals[items[j].RentalID].Status)
                               \in BLOCKING_STATES}}
    IN {i \in Instances :
          /\ ToolOf(i) = tool_id
          /\ instStatus[i] = "Available"
          /\ i \notin busy_ids
          /\ (RequiresCertification(i) =>
                 NextCalibration(i) # 0 /\ NextCalibration(i) >= end_date)}

\* days_by_instance[iid] of _rank_instances_for_allocation (2021-2032).
RECURSIVE DaysOfUse(_, _, _)
DaysOfUse(tool_id, iid, k) ==
    IF k = 0 THEN 0
    ELSE DaysOfUse(tool_id, iid, k - 1) +
         (IF /\ items[k].ToolID = tool_id
             /\ items[k].ToolInstanceID = iid
             /\ rentals[items[k].RentalID].Status # "Offer"
          THEN Max(1, rentals[items[k].RentalID].EndDate
                          - rentals[items[k].RentalID].StartDate)
          ELSE 0)

\* The sort key with the tie broken by the larger identifier.
RankBefore_desc(tool_id, a, b) ==
    \/ DaysOfUse(tool_id, a, Len(items)) > DaysOfUse(tool_id, b, Len(items))
    \/ /\ DaysOfUse(tool_id, a, Len(items)) = DaysOfUse(tool_id, b, Len(items))
       /\ a > b

\* sorted(candidates, key=(-days, iid)).
RankBefore(tool_id, a, b) ==
    LET da == DaysOfUse(tool_id, a, Len(items))
        db_ == DaysOfUse(tool_id, b, Len(items))
    IN da > db_ \/ (da = db_ /\ a < b)

RECURSIVE _rank_instances_for_allocation(_, _)
_rank_instances_for_allocation(tool_id, candidate_instance_ids) ==
    IF candidate_instance_ids = {} THEN <<>>
    ELSE LET first == CHOOSE a \in candidate_instance_ids :
                        \A b \in candidate_instance_ids \ {a} : RankBefore(tool_id, a, b)
         IN <<first>> \o
            _rank_instances_for_allocation(tool_id, candidate_instance_ids \ {first})

\* ---- decide --------------------------------------------------------------
\* Lifecycle of a line: _mark_line_lifecycle sets the current state.
_mark_line_lifecycle(line, state) == [line EXCEPT !.state = state]

ShortageAction == [rentalItemID : 1..MaxLines, action : {"procure", "exclude"}]

ShortageActions == {<<>>} \cup {<<a>> : a \in ShortageAction}

\* action_map.get(id): the last action given for the line, or "" for none.
ActionFor(shortage_actions, id) ==
    LET hits == {n \in 1..Len(shortage_actions) : shortage_actions[n].rentalItemID = id}
    IN IF hits = {} THEN ""
       ELSE shortage_actions[CHOOSE n \in hits : \A m \in hits : m <= n].action

\* _apply_shortage_actions (2036-2056) on the loaded lines of the rental.
_apply_shortage_actions(its, rid, shortage_actions) ==
    [k \in 1..Len(its) |->
        LET action == ActionFor(shortage_actions, k)
        IN IF its[k].RentalID # rid \/ action = "" THEN its[k]
           ELSE _mark_line_lifecycle(
                    [its[k] EXCEPT !.Quantity = IF action = "exclude" THEN 0 ELSE @],
                    IF action = "exclude" THEN "Excluded from Order"
                    ELSE "Shortage Action Set")]

RECURSIVE SumQty(_, _)
SumQty(its, ids) ==
    IF ids = {} THEN 0
    ELSE LET k == CHOOSE x \in ids : TRUE
         IN its[k].Quantity + SumQty(its, ids \ {k})

\* requested_by_tool (2061-2064).
RECURSIVE RequestedQty(_, _, _)
RequestedQty(its, ids, tool_id) ==
    IF ids = {} THEN 0
    ELSE LET k == CHOOSE x \in ids : TRUE
         IN (IF its[k].ToolID = tool_id THEN its[k].Quantity ELSE 0)
            + RequestedQty(its, ids \ {k}, tool_id)

\* _resolve_tool_daily_cost (2135-2139): the first loaded line of the tool.
_resolve_tool_daily_cost(its, rid, tool_id) ==
    LET own == {k \in RentalItems(its, rid) : its[k].ToolID = tool_id}
    IN IF own = {} THEN 0
       ELSE its[CHOOSE k \in own : \A j \in own : k <= j].DailyCost

\* The tools of the request lines in the order requested_by_tool holds them.
RECURSIVE ToolOrder(_, _, _)
ToolOrder(its, ids, k) ==
    IF k > Len(its) THEN <<>>
    ELSE IF k \in ids /\ \A j \in ids : j < k => its[j].ToolID # its[k].ToolID
         THEN <<its[k].ToolID>> \o ToolOrder(its, ids, k + 1)
         ELSE ToolOrder(its, ids, k + 1)

\* ReservationLines with the whole requested quantity on the shortage line.
ReservationLines_whole(rid, tool_id, qty, ranked_ids, daily) ==
    LET selected == IF qty < Len(ranked_ids) THEN qty ELSE Len(ranked_ids)
    IN [n \in 1..(selected + IF qty > selected THEN 1 ELSE 0) |->
          IF n <= selected
          THEN [RentalID |-> rid, ToolID |-> tool_id,
                ToolInstanceID |-> ranked_ids[n], Quantity |-> 1,
                DailyCost |-> daily, TotalCost |-> 0, state |-> "Reserved"]
          ELSE [RentalID |-> rid, ToolID |-> tool_id,
                ToolInstanceID |-> 0, Quantity |-> qty,
                DailyCost |-> daily, TotalCost |-> 0, state |-> "Pending Pickup"]]

\* The lines _allocate_reservation_lines adds for one tool (2086-2120) given
\* the ranked instances: one bound line per selected instance, then the
\* shortage line.
ReservationLines(rid, tool_id, qty, ranked_ids, daily) ==
    LET selected == IF qty < Len(ranked_ids) THEN qty ELSE Len(ranked_ids)
        shortage_qty == Max(0, qty - selected)
    IN [n \in 1..(selected + IF shortage_qty > 0 THEN 1 ELSE 0) |->
          IF n <= selected
          THEN [RentalID |-> rid, ToolID |-> tool_id,
                ToolInstanceID |-> ranked_ids[n], Quantity |-> 1,
                DailyCost |-> daily, TotalCost |-> 0, state |-> "Reserved"]
          ELSE [RentalID |-> rid, ToolID |-> tool_id,
                ToolInstanceID |-> 0, Quantity |-> shortage_qty,
                DailyCost |-> daily, TotalCost |-> 0, state |-> "Pending Pickup"]]

\* The pass taking the available instances in the order of their identifiers.
AllocatedLines_byid(its, rid, tool_id, qty) ==
    ReservationLines(rid, tool_id, qty,
        SetToSeq(_get_available_instances(tool_id, rentals[rid].StartDate,
                                          rentals[rid].EndDate)),
        _resolve_tool_daily_cost(its, rid, tool_id))

\* One pass of the loop over requested_by_tool (2070-2085).
AllocatedLines(its, rid, tool_id, qty) ==
    ReservationLines(rid, tool_id, qty,
        _rank_instances_for_allocation(tool_id,
            _get_available_instances(tool_id, rentals[rid].StartDate,
                                     rentals[rid].EndDate)),
        _resolve_tool_daily_cost(its, rid, tool_id))

RECURSIVE AllocateTools(_, _, _, _)
AllocateTools(its, rid, request_lines, tools) ==
    IF tools = <<>> THEN <<>>
    ELSE AllocatedLines(its, rid, Head(tools),
                        RequestedQty(its, request_lines, Head(tools)))
         \o AllocateTools(its, rid, request_lines, Tail(tools))

\* request_lines (2060): the loaded lines with quantity left.
RequestLines(its, rid) == {k \in RentalItems(its, rid) : its[k].Quantity > 0}

\* What _allocate_reservation_lines leaves (2122-2132): the loaded lines with
\* the request lines consumed, the lines added to the session, and the counts.
Allocation(its, request_lines, added) ==
    [items |-> [k \in 1..Len(its) |->
                  IF k \in request_lines
                  THEN _mark_line_lifecycle([its[k] EXCEPT !.Quantity = 0], "Superseded")
                  ELSE its[k]],
     added |-> added,
     reserved |-> {added[n].ToolInstanceID :
                     n \in {m \in 1..Len(added) : added[m].ToolInstanceID # 0}},
     reservedCount |-> Cardinality({m \in 1..Len(added) : added[m].ToolInstanceID # 0}),
     shortageCount |-> SumQty(added, {m \in 1..Len(added) : added[m].ToolInstanceID = 0})]

\* _allocate_reservation_lines (2059-2132).
_allocate_reservation_lines(its, rid) ==
    Allocation(its, RequestLines(its, rid),
               AllocateTools(its, rid, RequestLines(its, rid),
                             ToolOrder(its, RequestLines(its, rid), 1)))

\* _release_reserved_instances releasing whatever is Reserved.
_release_reserved_instances_all(its, rid, st) ==
    [i \in Instances |-> IF st[i] \in {"Reserved", "Rented"} THEN "Available" ELSE st[i]]

\* _release_reserved_instances (2408-2417) on the loaded lines.
_release_reserved_instances(its, rid, st) ==
    [i \in Instances |->
        IF /\ \E k \in RentalItems(its, rid) : its[k].ToolInstanceID = i
           /\ st[i] \in {"Reserved", "Rented"}
        THEN "Available" ELSE st[i]]

\* The reason taken as given.
Strip_none(reason) == reason

\* (payload.reason or "").strip()
Strip(reason) == IF reason \in {"", " "} THEN "" ELSE reason

\* Every queued notification announces an approval.
Notification_approved(rid, type) ==
    [RentalID |-> rid, NotificationType |-> "ReservationApproved"]

Notification(rid, type) == [RentalID |-> rid, NotificationType |-> type]

\* The reject branch of decide_rental (1106-1125), also reached from cancel.
Reject(op, rid, current, reason) ==
    IF Strip(reason) = ""
    THEN Fail(op, rid, 400, "Reject reason is required.")
    ELSE LET t == _transition_state(current, "Closed")
         IN IF ~t.ok THEN TransitionFail(op, rid, t)
            ELSE /\ Len(notifications) < MaxNotif
                 /\ rentals' = [rentals EXCEPT ![rid].Status = t.Status]
                 /\ instStatus' = _release_reserved_instances(items, rid, instStatus)
                 /\ notifications' =
                        Append(notifications, Notification(rid, "ReservationRejected"))
                 /\ res' = Response(op, rid, 200, "Reservation rejected")
                 /\ UNCHANGED <<items, today>>

\* The approve branch of decide_rental (1127-1154) once the lines are
\* allocated: the total is recalculated over the lines loaded with the rental.
Approved(rid, current, alloc) ==
    LET cost == recalc_total_cost(rentals[rid], alloc.items, RentalItems(items, rid))
    IN /\ Len(notifications) < MaxNotif
       /\ Len(items) + Len(alloc.added) <= MaxLines
       /\ rentals' = [rentals EXCEPT ![rid].Status = current,
                                     ![rid].TotalCost = cost.TotalCost]
       /\ items' = cost.items \o alloc.added
       /\ instStatus' = [i \in Instances |->
                           IF i \in alloc.reserved THEN "Reserved" ELSE instStatus[i]]
       /\ notifications' = Append(notifications, Notification(rid, "ReservationApproved"))
       /\ res' = [Response("decide_rental", rid, 200, "Reservation approved")
                     EXCEPT !.numbers = <<alloc.reservedCount, alloc.shortageCount>>]
       /\ UNCHANGED today

Approve(rid, current, shortage_actions) ==
    Approved(rid, current,
             _allocate_reservation_lines(
                 _apply_shortage_actions(items, rid, shortage_actions), rid))

\* decide_rental (1085-1154).
decide_rental(rid, decision, reason, shortage_actions) ==
    /\ res = NoResponse /\ UNCHANGED outside
    /\ IF rid > Len(rentals)
       THEN Fail("decide_rental", rid, 404, "Rental not found")
       ELSE LET current == _apply_runtime_state(rentals[rid])
            IN IF current # "Reserved"
               THEN Fail("decide_rental", rid, 400, "Reservation is not pending decision.")
               ELSE IF decision = "reject"
                    THEN Reject("decide_rental", rid, current, reason)
                    ELSE Approve(rid, current, shortage_actions)

\* cancel_rental (1363-1390).
cancel_rental(rid) ==
    /\ res = NoResponse /\ UNCHANGED outside
    /\ IF rid > Len(rentals)
       THEN Fail("cancel_rental", rid, 404, "Rental not found")
       ELSE LET current == _apply_runtime_state(rentals[rid])
                t == _transition_state(current, "Closed")
            IN IF current = "Reserved"
               THEN Reject("cancel_rental", rid, current, "Cancelled by warehouse dispatcher")
               ELSE IF current \notin {"Offer"}
               THEN Fail("cancel_rental", rid, 400,
                         "Only Offer/Reserved rentals can be closed by cancel.")
               ELSE IF ~t.ok THEN TransitionFail("cancel_rental", rid, t)
               ELSE /\ rentals' = [rentals EXCEPT ![rid].Status = t.Status]
                    /\ res' = Response("cancel_rental", rid, 200, "Rental Closed")
                    /\ UNCHANGED <<items, instStatus, notifications, today>>

\* ---- return --------------------------------------------------------------
\* apply_return_updates leaving the instances as they are.
apply_return_updates_held(rental, its, rid, st) ==
    [rental |-> [rental EXCEPT !.Status = "Returned", !.ActualEnd = today],
     instStatus |-> st]

\* services/rental_service.py apply_return_updates (154-174): the rental and
\* the instance statuses afterwards.  (Tool.Status, set for unbound lines, is
\* read nowhere in the engine and is not part of the state.)
apply_return_updates(rental, its, rid, st) ==
    [rental |-> [rental EXCEPT !.Status = "Returned", !.ActualEnd = today],
     instStatus |-> [i \in Instances |->
                       IF \E k \in RentalItems(its, rid) : its[k].ToolInstanceID = i
                       THEN "Available" ELSE st[i]]]

\* return_rental (1393-1419).
return_rental(rid) ==
    /\ res = NoResponse /\ UNCHANGED outside
    /\ IF rid > Len(rentals)
       THEN Fail("return_rental", rid, 404, "Rental not found")
       ELSE LET current == _apply_runtime_state(rentals[rid])
                out == apply_return_updates([rentals[rid] EXCEPT !.Status = current],
                                            items, rid, instStatus)
            IN IF current \notin {"Active", "Overdue"}
               THEN Fail("return_rental", rid, 400,
                         "Could not process return. Check if rental is active.")
               ELSE /\ rentals' = [rentals EXCEPT ![rid] = out.rental]
                    /\ instStatus' = out.instStatus
                    /\ res' = Response("return_rental", rid, 200, "Return processed successfully")
                    /\ UNCHANGED <<items, notifications, today>>

\* force_return_rental (1568-1594).
force_return_rental(rid) ==
    /\ res = NoResponse /\ UNCHANGED outside
    /\ IF rid > Len(rentals)
       THEN Fail("force_return_rental", rid, 404, "Rental not found")
       ELSE LET current == _apply_runtime_state(rentals[rid])
                out == apply_return_updates([rentals[rid] EXCEPT !.Status = current],
                                            items, rid, instStatus)
            IN IF current \in TERMINAL_STATES
               THEN Fail("force_return_rental", rid, 400,
                         "Cannot force-return a terminal rental.")
               ELSE /\ rentals' = [rentals EXCEPT ![rid] = out.rental]
                    /\ instStatus' = out.instStatus
                    /\ res' = Response("force_return_rental", rid, 200, "Rental Force Returned")
                    /\ UNCHANGED <<items, notifications, today>>

\* ---- offers and the kiosk ------------------------------------------------
\* checkout_offer (838-890): the offer is looked up by number, the reservation
\* is created from its lines, then the offer is closed.
\* The checkout payload asking for one unit of every offer line.
OfferRequest_single(lines) ==
    [k \in 1..Len(lines) |->
        [toolID |-> items[lines[k]].ToolID, quantity |-> 1,
         dailyCost |-> items[lines[k]].DailyCost]]

\* rentalItems of the checkout payload (861-870): one request per offer line.
OfferRequest(lines) ==
    [k \in 1..Len(lines) |->
        [toolID |-> items[lines[k]].ToolID,
         quantity |-> IF items[lines[k]].Quantity = 0 THEN 1
                      ELSE items[lines[k]].Quantity,
         dailyCost |-> items[lines[k]].DailyCost]]

checkout_offer(offer_number, startDate, endDate) ==
    LET found == {r \in 1..Len(rentals) : rentals[r].RentalNumber = offer_number}
        offer == CHOOSE r \in found : \A q \in found : r <= q
        req == OfferRequest(SetToSeq(RentalItems(items, offer)))
        out == CreateOutcome("Reserved", startDate, endDate, req)
        t == _transition_state(rentals[offer].Status, "Closed")
    IN /\ res = NoResponse /\ UNCHANGED outside
       /\ IF found = {} \/ _normalize_state(rentals[offer].Status) # "Offer"
          THEN Fail("checkout_offer", 0, 404, "Offer not found")
          ELSE IF ~out.ok
          THEN Fail("checkout_offer", offer, 400, out.detail)
          ELSE /\ Len(items) + Len(req) <= MaxLines
               /\ rentals' = [out.rentals EXCEPT ![offer].Status = t.Status]
               /\ items' = out.items
               /\ res' = Response("checkout_offer", out.rid, 200, "created")
               /\ UNCHANGED <<instStatus, notifications, today>>

\* _activate_rental (2142-2156) on a rental and its loaded lines.
_activate_rental(rental, its, ids, st) ==
    LET t == _transition_state(rental.Status, "Active")
        bound == {k \in ids : its[k].ToolInstanceID # 0}
    IN [ok |-> t.ok,
        rental |-> [rental EXCEPT !.Status = t.Status,
                                  !.ActualStart = IF @ = 0 THEN today ELSE @],
        items |-> [k \in 1..Len(its) |->
                     IF k \in bound THEN _mark_line_lifecycle(its[k], "Picked Up")
                     ELSE its[k]],
        instStatus |-> [i \in Instances |->
                          IF \E k \in bound : its[k].ToolInstanceID = i
                          THEN "In Rental" ELSE st[i]]]

\* The PIN whose hash the employee's user row stores.
StoredPin == "4711"

verify_password_any(pin_code) == Len(pin_code) >= 4

\* verify_password (services/atlas_user_service.py 390-400): a candidate
\* shorter than four characters never verifies, any other is compared with
\* the stored PIN.
verify_password(pin_code) ==
    IF Len(pin_code) < 4 THEN FALSE ELSE pin_code = StoredPin

\* kiosk_lend (917-997): the rental is created Reserved and committed, then
\* activated and committed.
kiosk_lend(pinCode, startDate, endDate, req) ==
    LET out == CreateOutcome("Reserved", startDate, endDate, req)
        act == _activate_rental(out.rentals[out.rid], out.items,
                                RentalItems(out.items, out.rid), instStatus)
    IN /\ res = NoResponse /\ UNCHANGED outside
       /\ Len(items) + Len(req) <= MaxLines
       /\ IF Len(pinCode) < 4
          THEN Fail("kiosk_lend", 0, 400, "PIN code must be at least 4 characters.")
          ELSE IF ~verify_password(pinCode)
          THEN Fail("kiosk_lend", 0, 401, "Invalid credentials.")
          ELSE IF endDate < startDate
          THEN Fail("kiosk_lend", 0, 400, "endDate must be on or after startDate.")
          ELSE IF req = <<>>
          THEN Fail("kiosk_lend", 0, 400, "No rental items supplied.")
          ELSE IF ~out.ok
          THEN Fail("kiosk_lend", 0, 400, out.detail)
          ELSE /\ rentals' = [out.rentals EXCEPT ![out.rid] = act.rental]
               /\ items' = act.items
               /\ instStatus' = act.instStatus
               /\ res' = Response("kiosk_lend", out.rid, 200, act.rental.Status)
               /\ UNCHANGED <<notifications, today>>

\* ---- pickup --------------------------------------------------------------
PickMark == [rentalItemID : 1..MaxLines, pickedQuantity : 0..MaxQty,
             toolInstanceIDs : {<<>>} \cup {<<a>> : a \in Instances \cup {0}}
                                 \cup {<<a, b>> : a, b \in Instances}]

PickMarks == UNION {[1..n -> PickMark] : n \in 0..MaxMarks}

\* _validate_manual_instance without the overlap check.
_validate_manual_instance_free(tool_id, tool_instance_id, start_date, end_date, st) ==
    IF tool_instance_id \notin Instances \/ ToolOf(tool_instance_id) # tool_id
    THEN "Invalid tool instance selected."
    ELSE IF st[tool_instance_id] # "Available"
    THEN "Selected tool instance is not available."
    ELSE IF /\ RequiresCertification(tool_instance_id)
            /\ (NextCalibration(tool_instance_id) = 0
                \/ NextCalibration(tool_instance_id) < end_date)
    THEN "Selected tool instance expires before rental end."
    ELSE ""

\* _validate_manual_instance (2388-2405) against the session's instance
\* statuses `st`: the error detail, or "" when the instance passes.
_validate_manual_instance(tool_id, tool_instance_id, start_date, end_date, st) ==
    IF tool_instance_id \notin Instances \/ ToolOf(tool_instance_id) # tool_id
    THEN "Invalid tool instance selected."
    ELSE IF st[tool_instance_id] # "Available"
    THEN "Selected tool instance is not available."
    ELSE IF /\ RequiresCertification(tool_instance_id)
            /\ (NextCalibration(tool_instance_id) = 0
                \/ NextCalibration(tool_instance_id) < end_date)
    THEN "Selected tool instance expires before rental end."
    ELSE IF _has_instance_overlap(tool_instance_id, start_date, end_date, 0)
    THEN "Selected tool instance overlaps existing reservation."
    ELSE ""

\* The loop 1234-1241: the first chosen instance that fails validation.
RECURSIVE ValidateChosen(_, _, _, _)
ValidateChosen(tool_id, chosen_ids, rid, st) ==
    IF chosen_ids = <<>> THEN ""
    ELSE LET e == _validate_manual_instance(tool_id, Head(chosen_ids),
                      rentals[rid].StartDate, rentals[rid].EndDate, st)
         IN IF e # "" THEN e ELSE ValidateChosen(tool_id, Tail(chosen_ids), rid, st)

SeqRange(q) == {q[n] : n \in 1..Len(q)}

\* An entry that fails is skipped.
PickError_skip(acc, detail) == acc

PickError(acc, detail) == [acc EXCEPT !.err = detail]

\* Any quantity may be picked from the line.
exceeds_remaining_never(pick_qty, available_qty) == FALSE

\* pick_qty > available_qty (1218)
exceeds_remaining(pick_qty, available_qty) == pick_qty > available_qty

\* The whole picked quantity goes to the untracked line.
untracked_qty_whole(pick_qty, chosen_ids) == pick_qty

\* untracked_qty = pick_qty - len(chosen_ids) (1266)
untracked_qty(pick_qty, chosen_ids) == pick_qty - Len(chosen_ids)

\* One pass of the loop of mark_items_for_rental (1186-1290) over the session
\* state acc = [err, its, st, added, seen].
PickOne(acc, mark, rid) ==
    LET k == mark.rentalItemID
        line == acc.its[k]
        pick0 == Max(0, mark.pickedQuantity)
        pick_qty == IF pick0 = 0 /\ mark.toolInstanceIDs # <<>>
                    THEN Len(mark.toolInstanceIDs) ELSE pick0
        chosen_ids == mark.toolInstanceIDs
        available_qty == line.Quantity
        invalid == ValidateChosen(line.ToolID, chosen_ids, rid, acc.st)
        bound == [n \in 1..Len(chosen_ids) |->
                    [RentalID |-> rid, ToolID |-> line.ToolID,
                     ToolInstanceID |-> chosen_ids[n], Quantity |-> 1,
                     DailyCost |-> line.DailyCost, TotalCost |-> 0,
                     state |-> "Picked Up"]]
        untracked_left == untracked_qty(pick_qty, chosen_ids)
        untracked == IF untracked_left > 0
                     THEN <<[RentalID |-> rid, ToolID |-> line.ToolID,
                             ToolInstanceID |-> 0, Quantity |-> untracked_left,
                             DailyCost |-> line.DailyCost, TotalCost |-> 0,
                             state |-> "Picked Up"]>>
                     ELSE <<>>
    IN IF k \notin RentalItems(items, rid)
       THEN PickError(acc, "RentalItem not found in rental.")
       ELSE IF line.Quantity <= 0
       THEN PickError(acc, "RentalItem has no remaining quantity.")
       ELSE IF pick_qty <= 0
       THEN PickError(acc, "Invalid picked quantity for line.")
       ELSE IF line.ToolInstanceID # 0
       THEN IF pick_qty # 1
            THEN PickError(acc, "RentalItem can only pick quantity 1.")
            ELSE [acc EXCEPT
                    !.its[k] = _mark_line_lifecycle([line EXCEPT !.Quantity = 0], "Picked Up"),
                    !.st[line.ToolInstanceID] = "In Rental"]
       ELSE IF exceeds_remaining(pick_qty, available_qty)
       THEN PickError(acc, "Picked quantity exceeds remaining on line.")
       ELSE IF Len(chosen_ids) # Cardinality(SeqRange(chosen_ids))
       THEN PickError(acc, "Duplicate instance IDs in line.")
       ELSE IF Len(chosen_ids) > pick_qty
       THEN PickError(acc, "Too many instance IDs supplied for line.")
       ELSE IF SeqRange(chosen_ids) \cap acc.seen # {}
       THEN PickError(acc, "Duplicate instance ID across marked lines.")
       ELSE IF invalid # ""
       THEN PickError(acc, invalid)
       ELSE [err |-> "",
             its |-> [acc.its EXCEPT ![k] =
                        _mark_line_lifecycle(
                            [line EXCEPT !.Quantity = available_qty - pick_qty],
                            IF available_qty - pick_qty > 0 THEN "Pending Pickup"
                            ELSE "Fulfilled")],
             st |-> [i \in Instances |->
                       IF i \in SeqRange(chosen_ids) THEN "In Rental" ELSE acc.st[i]],
             added |-> acc.added \o bound \o untracked,
             seen |-> acc.seen \cup SeqRange(chosen_ids)]

\* The state check of mark_items_for_rental letting offers through.
Pickable_offer(current) == current \in {"Offer", "Reserved", "Active", "Overdue"}

\* The state check of mark_items_for_rental (1175-1177).
Pickable(current) == current \in {"Reserved", "Active", "Overdue"}

RECURSIVE PickLoop(_, _, _)
PickLoop(acc, marks, rid) ==
    IF marks = <<>> \/ acc.err # "" THEN acc
    ELSE PickLoop(PickOne(acc, Head(marks), rid), Tail(marks), rid)

\* mark_items_for_rental (1157-1309).
mark_items_for_rental(rid, marks) ==
    /\ res = NoResponse /\ UNCHANGED outside
    /\ IF rid > Len(rentals)
       THEN Fail("mark_items_for_rental", rid, 404, "Rental not found")
       ELSE LET current == _apply_runtime_state(rentals[rid])
                loaded == RentalItems(items, rid)
                out == PickLoop([err |-> "", its |-> items, st |-> instStatus,
                                 added |-> <<>>, seen |-> {}], marks, rid)
                \* picked_any is set by every pass that does not raise
                t == IF _normalize_state(current) = "Reserved"
                     THEN _transition_state(current, "Active")
                     ELSE [ok |-> TRUE, Status |-> current, detail |-> "", states |-> <<>>]
                rental == [rentals[rid] EXCEPT
                             !.Status = t.Status,
                             !.ActualStart = IF _normalize_state(current) = "Reserved"
                                                /\ @ = 0 THEN today ELSE @]
                cost == recalc_total_cost(rental, out.its, loaded)
            IN IF ~Pickable(current)
               THEN Fail("mark_items_for_rental", rid, 400, "Rental is not in a pickable state.")
               ELSE IF marks = <<>>
               THEN Fail("mark_items_for_rental", rid, 400, "No marked items supplied.")
               ELSE IF out.err # ""
               THEN Fail("mark_items_for_rental", rid, 400, out.err)
               ELSE IF ~t.ok
               THEN TransitionFail("mark_items_for_rental", rid, t)
               ELSE /\ Len(items) + Len(out.added) <= MaxLines
                    /\ rentals' = [rentals EXCEPT
                                     ![rid] = [rental EXCEPT !.TotalCost = cost.TotalCost]]
                    /\ items' = cost.items \o out.added
                    /\ instStatus' = out.st
                    /\ res' = Response("mark_items_for_rental", rid, 200, t.Status)
                    /\ UNCHANGED <<notifications, today>>

\* ---- receive -------------------------------------------------------------
ReceiveMark == [rentalItemID : 1..MaxLines, returnedQuantity : 0..MaxQty,
                notReturnedQuantity : 0..MaxQty]

ReceiveMarks == UNION {[1..n -> ReceiveMark] : n \in 0..MaxMarks}

\* The quantity left on the line less the units not returned as well.
RemainingQuantity_less(remaining, returned_qty, not_returned_qty) ==
    remaining - returned_qty - not_returned_qty

\* line.Quantity = remaining - returned_qty (1506)
RemainingQuantity(remaining, returned_qty, not_returned_qty) == remaining - returned_qty

\* The state of the source line whatever was not returned.
line_target_state_open(not_returned_qty, left) ==
    IF left > 0 THEN "Pending Pickup" ELSE "Returned"

\* target_state (1507)
line_target_state(not_returned_qty, left) ==
    IF not_returned_qty > 0 THEN "Not Returned"
    ELSE IF left > 0 THEN "Pending Pickup" ELSE "Returned"

\* One pass of the loop of receive_marked_items (1448-1513) over the session
\* state acc = [err, its, st, added].
ReceiveOne(acc, mark, rid) ==
    LET k == mark.rentalItemID
        line == acc.its[k]
        remaining == line.Quantity
        returned_qty == Max(0, mark.returnedQuantity)
        not_returned_qty == Max(0, mark.notReturnedQuantity)
        left == RemainingQuantity(remaining, returned_qty, not_returned_qty)
    IN IF k \notin RentalItems(items, rid)
       THEN PickError(acc, "RentalItem not found in rental.")
       ELSE IF remaining <= 0
       THEN PickError(acc, "RentalItem has no remaining quantity.")
       ELSE IF returned_qty + not_returned_qty <= 0
       THEN PickError(acc, "No quantities set for line.")
       ELSE IF returned_qty + not_returned_qty > remaining
       THEN PickError(acc, "Returned+NotReturned exceeds remaining quantity on line.")
       ELSE IF line.ToolInstanceID # 0
       THEN IF returned_qty = 1
            THEN [acc EXCEPT
                    !.its[k] = _mark_line_lifecycle([line EXCEPT !.Quantity = 0], "Returned"),
                    !.st[line.ToolInstanceID] = "Available"]
            ELSE IF not_returned_qty = 1
            THEN [acc EXCEPT !.its[k] = _mark_line_lifecycle(line, "Not Returned")]
            ELSE acc
       ELSE [acc EXCEPT
               !.its[k] = _mark_line_lifecycle([line EXCEPT !.Quantity = left],
                                             line_target_state(not_returned_qty, left)),
               !.added = IF returned_qty > 0
                         THEN Append(@, [RentalID |-> rid, ToolID |-> line.ToolID,
                                         ToolInstanceID |-> 0, Quantity |-> returned_qty,
                                         DailyCost |-> line.DailyCost, TotalCost |-> 0,
                                         state |-> "Returned"])
                         ELSE @]

RECURSIVE ReceiveLoop(_, _, _)
ReceiveLoop(acc, marks, rid) ==
    IF marks = <<>> \/ acc.err # "" THEN acc
    ELSE ReceiveLoop(ReceiveOne(acc, Head(marks), rid), Tail(marks), rid)

\* _rental_has_open_quantity (2007-2011) over the loaded lines.
_rental_has_open_quantity(its, ids) == \E k \in ids : its[k].Quantity > 0

\* receive_marked_items (1422-1530).
receive_marked_items(rid, marks) ==
    /\ res = NoResponse /\ UNCHANGED outside
    /\ IF rid > Len(rentals)
       THEN Fail("receive_marked_items", rid, 404, "Rental not found")
       ELSE LET current == _apply_runtime_state(rentals[rid])
                loaded == RentalItems(items, rid)
                out == ReceiveLoop([err |-> "", its |-> items, st |-> instStatus,
                                    added |-> <<>>, seen |-> {}], marks, rid)
                done == ~_rental_has_open_quantity(out.its, loaded)
                ret == apply_return_updates([rentals[rid] EXCEPT !.Status = current],
                                            out.its, rid, out.st)
                rental == IF done THEN ret.rental
                          ELSE [rentals[rid] EXCEPT !.Status = current]
                cost == recalc_total_cost(rental, out.its, loaded)
            IN IF current \notin {"Active", "Overdue"}
               THEN Fail("receive_marked_items", rid, 400, "Rental is not in a receivable state.")
               ELSE IF marks = <<>>
               THEN Fail("receive_marked_items", rid, 400, "No marked items supplied.")
               ELSE IF out.err # ""
               THEN Fail("receive_marked_items", rid, 400, out.err)
               ELSE /\ Len(items) + Len(out.added) <= MaxLines
                    /\ rentals' = [rentals EXCEPT
                                     ![rid] = [rental EXCEPT !.TotalCost = cost.TotalCost]]
                    /\ items' = cost.items \o out.added
                    /\ instStatus' = IF done THEN ret.instStatus ELSE out.st
                    /\ res' = Response("receive_marked_items", rid, 200, rental.Status)
                    /\ UNCHANGED <<notifications, today>>

\* ---- extend --------------------------------------------------------------
\* The first check of extend_rental's loop (1337-1351) that fails, in line
\* order: per line the certification check, then the overlap check.
RECURSIVE ExtendCheck(_, _, _)
ExtendCheck(rid, newEndDate, k) ==
    IF k > Len(items) THEN ""
    ELSE LET inst == items[k].ToolInstanceID
         IN IF items[k].RentalID # rid \/ inst = 0
            THEN ExtendCheck(rid, newEndDate, k + 1)
            ELSE IF /\ RequiresCertification(inst)
                    /\ (NextCalibration(inst) = 0 \/ NextCalibration(inst) < newEndDate)
            THEN "One or more items expire before the new end date."
            ELSE IF _has_instance_overlap(inst, rentals[rid].StartDate, newEndDate, rid)
            THEN "Tool instance is already reserved for that extension range."
            ELSE ExtendCheck(rid, newEndDate, k + 1)

\* extend_rental (1312-1360).
extend_rental(rid, newEndDate) ==
    /\ res = NoResponse /\ UNCHANGED outside
    /\ IF rid > Len(rentals)
       THEN Fail("extend_rental", rid, 404, "Rental not found")
       ELSE LET current == _apply_runtime_state(rentals[rid])
                check == ExtendCheck(rid, newEndDate, 1)
                rental == [rentals[rid] EXCEPT !.Status = current, !.EndDate = newEndDate]
                cost == recalc_total_cost(rental, items, RentalItems(items, rid))
            IN IF current # "Active"
               THEN Fail("extend_rental", rid, 400, "Could not extend rental.")
               ELSE IF newEndDate < rentals[rid].StartDate
               THEN Fail("extend_rental", rid, 400, "newEndDate must be on or after StartDate.")
               ELSE IF check # ""
               THEN Fail("extend_rental", rid, 400, check)
               ELSE /\ rentals' = [rentals EXCEPT
                                     ![rid] = [rental EXCEPT !.TotalCost = cost.TotalCost]]
                    /\ items' = cost.items
                    /\ res' = Response("extend_rental", rid, 200, "Rental Extended")
                    /\ UNCHANGED <<instStatus, notifications, today>>

\* force_extend_rental (1533-1565).
force_extend_rental(rid, newEndDate) ==
    /\ res = NoResponse /\ UNCHANGED outside
    /\ IF rid > Len(rentals)
       THEN Fail("force_extend_rental", rid, 404, "Rental not found")
       ELSE LET current == _apply_runtime_state(rentals[rid])
                t == IF current = "Overdue" /\ newEndDate >= today
                     THEN _transition_state(current, "Active")
                     ELSE [ok |-> TRUE, Status |-> current, detail |-> "", states |-> <<>>]
                rental == [rentals[rid] EXCEPT !.Status = t.Status, !.EndDate = newEndDate]
                cost == recalc_total_cost(rental, items, RentalItems(items, rid))
            IN IF current \in TERMINAL_STATES
               THEN Fail("force_extend_rental", rid, 400,
                         "Cannot force-extend a terminal rental.")
               ELSE IF newEndDate < rentals[rid].StartDate
               THEN Fail("force_extend_rental", rid, 400,
                         "newEndDate must be on or after StartDate.")
               ELSE IF ~t.ok THEN TransitionFail("force_extend_rental", rid, t)
               ELSE /\ rentals' = [rentals EXCEPT
                                     ![rid] = [rental EXCEPT !.TotalCost = cost.TotalCost]]
                    /\ items' = cost.items
                    /\ res' = Response("force_extend_rental", rid, 200, "Rental Force Extended")
                    /\ UNCHANGED <<instStatus, notifications, today>>

\* ---- loss ----------------------------------------------------------------
\* total_loss of mark_rental_lost (1614-1621).
RECURSIVE TotalLoss(_, _)
TotalLoss(ids, rental_days) ==
    IF ids = {} THEN 0
    ELSE LET k == CHOOSE x \in ids : TRUE
             tool_value == CurrentValue(items[k].ToolID)
             income == IF items[k].TotalCost # 0 THEN items[k].TotalCost
                       ELSE items[k].DailyCost * rental_days * items[k].Quantity
         IN Max((tool_value * 65) \div 100, tool_value - income)
            + TotalLoss(ids \ {k}, rental_days)

\* mark_rental_lost (1597-1631): no state check, no runtime state.
mark_rental_lost(rid) ==
    /\ res = NoResponse /\ UNCHANGED outside
    /\ IF rid > Len(rentals)
       THEN Fail("mark_rental_lost", rid, 404, "Rental not found")
       ELSE LET rental_days == Max(1, rentals[rid].EndDate - rentals[rid].StartDate)
            IN /\ rentals' = [rentals EXCEPT
                                ![rid].Status = "Lost",
                                ![rid].LossAmount =
                                    TotalLoss(RentalItems(items, rid), rental_days)]
               /\ res' = Response("mark_rental_lost", rid, 200, "Rental marked as lost")
               /\ UNCHANGED <<items, instStatus, notifications, today>>

Init ==
    /\ rentals = <<>>
    /\ items = <<>>
    /\ instStatus = [i \in Instances |-> "Available"]
    /\ notifications = <<>>
    /\ today = 1
    /\ res = NoResponse /\ InitOutside

\* date.today() advances.
Tick ==
    /\ res = NoResponse /\ UNCHANGED outside
    /\ today < MaxDay
    /\ today' = today + 1
    /\ UNCHANGED <<rentals, items, instStatus, notifications, res>>

\* The response reaches the client.
Deliver ==
    /\ res # NoResponse /\ UNCHANGED outside
    /\ res' = NoResponse
    /\ UNCHANGED <<rentals, items, instStatus, notifications, today>>

\* ---- two rentals competing for the instances -------------------------------
\* Requests for one unit or two of the tool, explicit pickups of instance 1 or
\* of a bound line, receives that report one unit returned.  The date stands
\* still and no rental is written off (SpecOne covers both).
Picks == {<<[rentalItemID |-> k, pickedQuantity |-> 1, toolInstanceIDs |-> <<1>>]>> :
             k \in 1..MaxLines}

Receives == {<<[rentalItemID |-> k, returnedQuantity |-> 1, notReturnedQuantity |-> 0]>> :
                k \in 1..MaxLines}

Next ==
    \/ \E a \in 1..MaxDate, b \in 1..MaxDate, q \in 1..MaxQty :
          /\ Len(rentals) < MaxRentals
          /\ create_rental("Reserved", a, b,
                           <<[toolID |-> 1, quantity |-> q, dailyCost |-> -1]>>)
    \/ \E rid \in 1..Len(rentals) : get_rental(rid)
    \/ \E rid \in 1..Len(rentals) : decide_rental(rid, "reject", "late", <<>>)
    \/ \E rid \in 1..Len(rentals) : decide_rental(rid, "approve", "", <<>>)
    \/ \E rid \in 1..Len(rentals) : cancel_rental(rid)
    \/ \E rid \in 1..Len(rentals) : return_rental(rid)
    \/ \E rid \in 1..Len(rentals) : force_return_rental(rid)
    \/ \E rid \in 1..Len(rentals), e \in 1..MaxDate : extend_rental(rid, e)
    \/ \E rid \in 1..Len(rentals), e \in 1..MaxDate : force_extend_rental(rid, e)
    \/ \E rid \in 1..Len(rentals), marks \in Picks : mark_items_for_rental(rid, marks)
    \/ \E rid \in 1..Len(rentals), marks \in Receives : receive_marked_items(rid, marks)
    \/ Deliver

Spec == Init /\ [][Next]_vars

\* The same two rentals served one request at a time without forced
\* extensions; rentals are written off as well.
NextSerial ==
    \/ \E a \in 1..MaxDate, b \in 1..MaxDate, q \in 1..MaxQty :
          /\ Len(rentals) < MaxRentals
          /\ create_rental("Reserved", a, b,
                           <<[toolID |-> 1, quantity |-> q, dailyCost |-> -1]>>)
    \/ \E rid \in 1..Len(rentals) : get_rental(rid)
    \/ \E rid \in 1..Len(rentals) : decide_rental(rid, "reject", "late", <<>>)
    \/ \E rid \in 1..Len(rentals) : decide_rental(rid, "approve", "", <<>>)
    \/ \E rid \in 1..Len(rentals) : cancel_rental(rid)
    \/ \E rid \in 1..Len(rentals) : return_rental(rid)
    \/ \E rid \in 1..Len(rentals) : force_return_rental(rid)
    \/ \E rid \in 1..Len(rentals), e \in 1..MaxDate : extend_rental(rid, e)
    \/ \E rid \in 1..Len(rentals) : mark_rental_lost(rid)
    \/ \E rid \in 1..Len(rentals), marks \in Picks : mark_items_for_rental(rid, marks)
    \/ \E rid \in 1..Len(rentals), marks \in Receives : receive_marked_items(rid, marks)
    \/ Deliver

SpecSerial == Init /\ [][NextSerial]_vars

\* ---- one customer: a rental, or an offer and its checkout ------------------
PicksOne == {<<[rentalItemID |-> k, pickedQuantity |-> q, toolInstanceIDs |-> c]>> :
                k \in 1..MaxLines, q \in 0..MaxQty,
                c \in {<<>>, <<0>>, <<1>>, <<2>>, <<1, 1>>, <<1, 2>>}}
                \cup {<<>>}

Pins == {"12", "0000", StoredPin}

NextOne ==
    \/ \E s \in {"Offer", "Reserved", "Pending", "Active", ""}, a \in 1..MaxDate,
          b \in 1..MaxDate, req \in ReqLines :
          /\ rentals = <<>>
          /\ create_rental(s, a, b, req)
    \/ \E rid \in 1..Len(rentals) : get_rental(rid)
    \/ get_rentals
    \/ \E rid \in 1..Len(rentals), reason \in {"", " ", "late"} :
          decide_rental(rid, "reject", reason, <<>>)
    \/ \E rid \in 1..Len(rentals), sa \in ShortageActions :
          decide_rental(rid, "approve", "", sa)
    \/ \E rid \in 1..Len(rentals) : cancel_rental(rid)
    \/ \E rid \in 1..Len(rentals) : return_rental(rid)
    \/ \E rid \in 1..Len(rentals) : force_return_rental(rid)
    \/ \E rid \in 1..Len(rentals), e \in 1..MaxDate : extend_rental(rid, e)
    \/ \E rid \in 1..Len(rentals), e \in 1..MaxDate : force_extend_rental(rid, e)
    \/ \E rid \in 1..Len(rentals) : mark_rental_lost(rid)
    \/ \E rid \in 1..Len(rentals), marks \in PicksOne : mark_items_for_rental(rid, marks)
    \/ \E rid \in 1..Len(rentals), marks \in ReceiveMarks : receive_marked_items(rid, marks)
    \/ Tick
    \/ Deliver

SpecOne == Init /\ [][NextOne]_vars

\* ---- offers, their checkout, and the kiosk ---------------------------------
NextOffer ==
    \/ \E s \in {"Offer", "Reserved"}, a \in 1..MaxDate, b \in 1..MaxDate :
          /\ rentals = <<>>
          /\ create_rental(s, a, b, <<[toolID |-> 1, quantity |-> MaxQty, dailyCost |-> -1]>>)
    \/ \E n \in {<<"YY", 1>>, <<"RNT", 1>>}, a \in 1..MaxDate, b \in 1..MaxDate :
          /\ \/ Len(rentals) < MaxRentals
             \/ \A r \in 1..Len(rentals) : rentals[r].Status # "Offer"
          /\ checkout_offer(n, a, b)
    \/ \E pin \in Pins, a \in 1..MaxDate, b \in 1..MaxDate, req \in ReqLines :
          /\ rentals = <<>>
          /\ kiosk_lend(pin, a, b, req)
    \/ \E rid \in 1..Len(rentals) : get_rental(rid)
    \/ get_rentals
    \/ \E rid \in 1..Len(rentals) : decide_rental(rid, "reject", "late", <<>>)
    \/ \E rid \in 1..Len(rentals) : decide_rental(rid, "approve", "", <<>>)
    \/ \E rid \in 1..Len(rentals) : cancel_rental(rid)
    \/ \E rid \in 1..Len(rentals) : return_rental(rid)
    \/ \E rid \in 1..Len(rentals) : force_return_rental(rid)
    \/ \E rid \in 1..Len(rentals), marks \in Picks : mark_items_for_rental(rid, marks)
    \/ \E rid \in 1..Len(rentals), marks \in Receives : receive_marked_items(rid, marks)
    \/ Tick
    \/ Deliver

SpecOffer == Init /\ [][NextOffer]_vars

\* ---- _transition_state applied to a stored rental --------------------------
Statuses == {"Offer", "Reserved", "Active", "Overdue", "Returned", "Closed",
             "Cancelled", "Lost"}

\* A rental row as the Rentals table may hold it.
StoredRental(n, status, start_date, end_date) ==
    [Status |-> status, StartDate |-> start_date, EndDate |-> end_date,
     ActualStart |-> 0, ActualEnd |-> 0, TotalCost |-> 0, LossAmount |-> -1,
     RentalNumber |-> <<"RNT", n>>]

InitTransition ==
    /\ \E s \in Statuses \cup DOMAIN STATE_ALIASES, e \in 1..MaxDate :
          rentals = <<StoredRental(1, s, 1, e)>>
    /\ items = <<>>
    /\ instStatus = [i \in Instances |-> "Available"]
    /\ notifications = <<>>
    /\ today = 1
    /\ res = NoResponse /\ InitOutside

\* _transition_state(rental, target_state) followed by the commit; the
\* response records the source and the target after normalization.
Transition(rid, target_state) ==
    LET t == _transition_state(rentals[rid].Status, target_state)
    IN /\ res = NoResponse /\ UNCHANGED outside
       /\ IF t.ok
          THEN /\ rentals' = [rentals EXCEPT ![rid].Status = t.Status]
               /\ res' = [Response("_transition_state", rid, 200, "ok")
                             EXCEPT !.states = <<_normalize_state(rentals[rid].Status),
                                                 _normalize_state(target_state)>>]
               /\ UNCHANGED <<items, instStatus, notifications, today>>
          ELSE TransitionFail("_transition_state", rid, t)

NextTransition ==
    \/ \E target_state \in Statuses \cup DOMAIN STATE_ALIASES : Transition(1, target_state)
    \/ Deliver

SpecTransition == InitTransition /\ [][NextTransition]_vars

\* ---- the resolver and the ranker over a stored database --------------------
StoredLine(rid, tool_instance_id, state) ==
    [RentalID |-> rid, ToolID |-> ToolOf(tool_instance_id),
     ToolInstanceID |-> tool_instance_id, Quantity |-> 1,
     DailyCost |-> DailyRentalCost(ToolOf(tool_instance_id)), TotalCost |-> 0,
     state |-> state]

\* get_rental_availability (893-914): numbers holds the tool, the range, the
\* wanted quantity, the available count and the deficit; ids the instances.
get_rental_availability(tool_id, start_date, end_date, quantity) ==
    LET available == SetToSeq(_get_available_instances(tool_id, start_date, end_date))
    IN /\ res = NoResponse /\ UNCHANGED outside
       /\ IF end_date < start_date
          THEN Fail("get_rental_availability", 0, 400,
                    "endDate must be on or after startDate.")
          ELSE /\ res' = [Response("get_rental_availability", 0, 200, "")
                            EXCEPT !.numbers = <<tool_id, start_date, end_date,
                                                 Max(1, quantity), Len(available),
                                                 Max(0, Max(1, quantity) - Len(available))>>,
                                   !.ids = available]
               /\ UNCHANGED <<rentals, items, instStatus, notifications, today>>

\* Two rentals, each holding one line bound to instance 1 or 2.
InitResolver ==
    /\ \E s1 \in Statuses \cup DOMAIN STATE_ALIASES, s2 \in {"Active", "Closed"},
          e1 \in 1..MaxDate, b2 \in 1..MaxDate :
          rentals = <<StoredRental(1, s1, 1, e1), StoredRental(2, s2, b2, MaxDate)>>
    /\ \E i1 \in {1, 2}, i2 \in {1, 2} :
          items = <<StoredLine(1, i1, "Reserved"), StoredLine(2, i2, "Picked Up")>>
    /\ instStatus \in [Instances -> {"Available", "Reserved"}]
    /\ notifications = <<>>
    /\ today = 1
    /\ res = NoResponse /\ InitOutside

NextResolver ==
    \/ \E a \in 1..MaxDate, b \in 1..MaxDate, q \in 0..MaxQty :
          get_rental_availability(1, a, b, q)
    \/ Deliver

SpecResolver == InitResolver /\ [][NextResolver]_vars

\* Rental lengths in days, as in the allocation example of the specification.
Spans == {0, 3, 10}

\* One rental per instance holding a line bound to it, and a fourth line that
\* binds some instance to the first rental.
InitRanker ==
    /\ \E st \in [Instances -> {"Offer", "Returned"}], sp \in [Instances -> Spans] :
          rentals = [r \in 1..Cardinality(Instances) |->
                        StoredRental(r, st[r], 1, 1 + sp[r])]
    /\ \E x \in Instances :
          items = [k \in 1..Cardinality(Instances) |-> StoredLine(k, k, "Returned")]
                     \o <<StoredLine(1, x, "Returned")>>
    /\ instStatus = [i \in Instances |-> "Available"]
    /\ notifications = <<>>
    /\ today = 1
    /\ res = NoResponse /\ InitOutside

\* _rank_instances_for_allocation applied to a candidate list: numbers holds
\* the candidates, ids the ranking.
Rank(tool_id, candidate_instance_ids) ==
    /\ res = NoResponse /\ UNCHANGED outside
    /\ res' = [Response("_rank_instances_for_allocation", 0, 200, "")
                 EXCEPT !.numbers = SetToSeq(candidate_instance_ids),
                        !.ids = _rank_instances_for_allocation(tool_id,
                                                               candidate_instance_ids)]
    /\ UNCHANGED <<rentals, items, instStatus, notifications, today>>

NextRanker ==
    \/ \E c \in SUBSET Instances : Rank(1, c)
    \/ Deliver

SpecRanker == InitRanker /\ [][NextRanker]_vars

\* ---- pickups and receives of one or two marks over a stored database -------
\* Rental 1 holds an unbound line of two units, rental 2 a line bound to
\* instance 1 or 2.
InitMarks ==
    /\ \E s1 \in {"Reserved", "Active", "Returned"}, s2 \in {"Active", "Returned"},
          e1 \in 1..MaxDate, b2 \in 1..MaxDate :
          rentals = <<StoredRental(1, s1, 1, e1), StoredRental(2, s2, b2, MaxDate)>>
    /\ \E i2 \in {1, 2} :
          items = <<[StoredLine(1, 1, "Pending Pickup") EXCEPT
                        !.ToolInstanceID = 0, !.Quantity = 2],
                    StoredLine(2, i2, "Picked Up")>>
    /\ instStatus \in [Instances -> {"Available", "Reserved"}]
    /\ notifications = <<>>
    /\ today = 1
    /\ res = NoResponse /\ InitOutside

\* Requests of one mark, or of two where the second picks instance 2, names
\* the other rental's line, or asks for more than the line holds.
PickMarkOne == [rentalItemID : {1, 2}, pickedQuantity : {0, 1, 3},
                toolInstanceIDs : {<<>>, <<0>>, <<1>>, <<2>>, <<2, 2>>}]

PickMarkTwo ==
    {[rentalItemID |-> 1, pickedQuantity |-> 1, toolInstanceIDs |-> <<2>>],
     [rentalItemID |-> 2, pickedQuantity |-> 1, toolInstanceIDs |-> <<>>],
     [rentalItemID |-> 1, pickedQuantity |-> 3, toolInstanceIDs |-> <<>>]}

PickOneOrTwo ==
    {<<m>> : m \in PickMarkOne} \cup {<<m, n>> : m \in PickMarkOne, n \in PickMarkTwo}

ReceiveMarkOne == [rentalItemID : {1, 2}, returnedQuantity : {0, 1, 2},
                   notReturnedQuantity : {0, 1}]

ReceiveMarkTwo ==
    {[rentalItemID |-> 1, returnedQuantity |-> 1, notReturnedQuantity |-> 0],
     [rentalItemID |-> 2, returnedQuantity |-> 1, notReturnedQuantity |-> 0],
     [rentalItemID |-> 1, returnedQuantity |-> 2, notReturnedQuantity |-> 1]}

ReceiveOneOrTwo ==
    {<<m>> : m \in ReceiveMarkOne}
        \cup {<<m, n>> : m \in ReceiveMarkOne, n \in ReceiveMarkTwo}

\* One request is applied to the stored database.
NextMarks ==
    \/ \E marks \in PickOneOrTwo :
          /\ Len(items) = 2 /\ items[1].Quantity = 2 /\ items[1].state = "Pending Pickup"
          /\ mark_items_for_rental(1, marks)
    \/ \E marks \in ReceiveOneOrTwo :
          /\ Len(items) = 2 /\ items[1].Quantity = 2 /\ items[1].state = "Pending Pickup"
          /\ receive_marked_items(1, marks)
    \/ Deliver

SpecMarks == InitMarks /\ [][NextMarks]_vars

\* ---- extensions of a stored rental ------------------------------------------
\* Rental 1 holds a picked-up line bound to instance 1 or 2, rental 2 a
\* reserved line bound to instance 1 or 2; the day is any day.
InitExtend ==
    /\ \E s1 \in Statuses, s2 \in {"Reserved", "Closed"},
          a1 \in 1..MaxDate, e1 \in 1..MaxDate, b2 \in 1..MaxDate :
          /\ a1 <= e1
          /\ rentals = <<StoredRental(1, s1, a1, e1), StoredRental(2, s2, b2, MaxDate)>>
    /\ \E j \in {1, 2}, i2 \in {1, 2} :
          /\ items = <<StoredLine(1, j, "Picked Up"), StoredLine(2, i2, "Reserved")>>
          /\ instStatus = [i \in Instances |->
                             IF i = j THEN "In Rental"
                             ELSE IF i = i2 THEN "Reserved" ELSE "Available"]
    /\ notifications = <<>>
    /\ today \in 1..MaxDay
    /\ res = NoResponse /\ InitOutside

NextExtend ==
    \/ \E e \in 1..MaxDate : extend_rental(1, e)
    \/ \E e \in 1..MaxDate : force_extend_rental(1, e)
    \/ Deliver

SpecExtend == InitExtend /\ [][NextExtend]_vars

\* ---- receipts on a stored rental ------------------------------------------
\* The rental holds an unbound line of up to MaxRemaining units that are out
\* and a line bound to instance 1 that is out or already back.
InitReceive ==
    /\ \E s \in {"Active", "Reserved"}, e \in 1..MaxDate :
          rentals = <<StoredRental(1, s, 1, e)>>
    /\ \E r \in 1..MaxRemaining, q \in {0, 1} :
          /\ items = <<[StoredLine(1, 1, "Picked Up") EXCEPT
                           !.ToolInstanceID = 0, !.Quantity = r],
                       [StoredLine(1, 1, IF q = 1 THEN "Picked Up" ELSE "Returned")
                           EXCEPT !.Quantity = q]>>
          /\ instStatus = [i \in Instances |->
                             IF i = 1 /\ q = 1 THEN "In Rental" ELSE "Available"]
    /\ notifications = <<>>
    /\ today \in 1..MaxDay
    /\ res = NoResponse /\ InitOutside

ReceiveMarkOfLine == [rentalItemID : 1..3, returnedQuantity : 0..MaxRemaining,
                      notReturnedQuantity : 0..2]

NextReceive ==
    \/ \E mark \in ReceiveMarkOfLine : receive_marked_items(1, <<mark>>)
    \/ Deliver

SpecReceive == InitReceive /\ [][NextReceive]_vars

\* ---- approvals over a stored history ----------------------------------------
\* Rental 1 is an earlier rental with a line bound to instance 1 or 2, rental
\* 2 a reservation asking for up to MaxQty units; instances 1 and 2 are free
\* or held.
InitAllocate ==
    /\ \E st \in {"Offer", "Returned", "Closed"}, sp \in Spans, e \in 1..MaxDate :
          rentals = <<StoredRental(1, st, 1, 1 + sp), StoredRental(2, "Reserved", 1, e)>>
    /\ \E x \in {1, 2}, q \in 1..MaxQty :
          items = <<StoredLine(1, x, "Returned"),
                    [StoredLine(2, 1, "Pending Approval") EXCEPT
                        !.ToolInstanceID = 0, !.Quantity = q]>>
    /\ \E held \in SUBSET {1, 2} :
          instStatus = [i \in Instances |-> IF i \in held THEN "In Rental" ELSE "Available"]
    /\ notifications = <<>>
    /\ today = 1
    /\ res = NoResponse /\ InitOutside

NextAllocate ==
    \/ /\ Len(items) = 2
       /\ decide_rental(2, "approve", "", <<>>)
    \/ Deliver

SpecAllocate == InitAllocate /\ [][NextAllocate]_vars

\* ---- the login guard (AssetMan.py 172-216) ----------------------------------
\* The attempts kept however old they are.
_prune_attempts_none(attempts, now_ts) == attempts

\* _prune_attempts (173-175)
_prune_attempts(attempts, now_ts) ==
    SelectSeq(attempts, LAMBDA ts : ts >= now_ts - Max(AUTH_ATTEMPT_WINDOW_SECONDS, 1))

\* _check_login_guard (178-199): the retry-after it returns, 0 for None, and
\* the three maps as it leaves them.
_check_login_guard(client_ip, account_key, by_ip, by_account, lockout) ==
    LET now_ts == now
        lockout_until == lockout[account_key]
        popped == IF lockout_until # 0 /\ lockout_until <= now_ts
                  THEN [lockout EXCEPT ![account_key] = 0] ELSE lockout
        ip_attempts == _prune_attempts(by_ip[client_ip], now_ts)
        account_attempts == _prune_attempts(by_account[account_key], now_ts)
        pruned_ip == [by_ip EXCEPT ![client_ip] = ip_attempts]
        pruned_account == [by_account EXCEPT ![account_key] = account_attempts]
    IN IF lockout_until # 0 /\ lockout_until > now_ts
       THEN [retry_after |-> Max(1, lockout_until - now_ts),
             by_ip |-> by_ip, by_account |-> by_account, lockout |-> lockout]
       ELSE IF Len(ip_attempts) >= Max(AUTH_MAX_ATTEMPTS_PER_IP, 1)
       THEN [retry_after |->
                 Max(1, (ip_attempts[1] + AUTH_ATTEMPT_WINDOW_SECONDS) - now_ts),
             by_ip |-> pruned_ip, by_account |-> pruned_account, lockout |-> popped]
       ELSE IF Len(account_attempts) >= Max(AUTH_MAX_ATTEMPTS_PER_ACCOUNT, 1)
       THEN [retry_after |-> Max(AUTH_LOCKOUT_SECONDS, 1),
             by_ip |-> pruned_ip, by_account |-> pruned_account,
             lockout |-> [popped EXCEPT ![account_key] =
                                     now_ts + Max(AUTH_LOCKOUT_SECONDS, 1)]]
       ELSE [retry_after |-> 0,
             by_ip |-> pruned_ip, by_account |-> pruned_account, lockout |-> popped]

\* _record_login_failure (202-212)
_record_login_failure(client_ip, account_key, by_ip, by_account, lockout) ==
    LET now_ts == now
        ip_attempts == Append(_prune_attempts(by_ip[client_ip], now_ts), now_ts)
        account_attempts == Append(_prune_attempts(by_account[account_key], now_ts), now_ts)
    IN [by_ip |-> [by_ip EXCEPT ![client_ip] = ip_attempts],
        by_account |-> [by_account EXCEPT ![account_key] = account_attempts],
        lockout |-> IF Len(account_attempts) >= Max(AUTH_MAX_ATTEMPTS_PER_ACCOUNT, 1)
                    THEN [lockout EXCEPT ![account_key] =
                                      now_ts + Max(AUTH_LOCKOUT_SECONDS, 1)]
                    ELSE lockout]

\* _record_login_success (215-218)
_record_login_success(account_key, by_account, lockout) ==
    [by_account |-> [by_account EXCEPT ![account_key] = <<>>],
     lockout |-> [lockout EXCEPT ![account_key] = 0]]

\* create_session (225-236): the token carries its payload and its expiry
\* under a signature, so it is the pair of both.
create_session(account_key) == [account |-> account_key,
                                expiresAt |-> now + SESSION_TTL_SECONDS,
                                signature |-> "valid"]

\* auth_login (304-363) for a request that names its account by username: the
\* guard is asked, a wrong identity or password is recorded as a failure, a
\* right one opens a session and clears the account.  numbers holds the
\* Retry-After of a 429 and the expiry of the token of a 200.
auth_login(client_ip, account_key, verified) ==
    LET guard == _check_login_guard(client_ip, account_key, _AUTH_ATTEMPTS_BY_IP,
                                    _AUTH_ATTEMPTS_BY_ACCOUNT,
                                    _AUTH_LOCKOUT_UNTIL_BY_ACCOUNT)
        failure == _record_login_failure(client_ip, account_key, guard.by_ip,
                                         guard.by_account, guard.lockout)
        success == _record_login_success(account_key, guard.by_account, guard.lockout)
        token == create_session(account_key)
    IN /\ res = NoResponse
       /\ IF guard.retry_after # 0
          THEN /\ _AUTH_ATTEMPTS_BY_IP' = guard.by_ip
               /\ _AUTH_ATTEMPTS_BY_ACCOUNT' = guard.by_account
               /\ _AUTH_LOCKOUT_UNTIL_BY_ACCOUNT' = guard.lockout
               /\ res' = [Response("auth_login", 0, 429, account_key)
                             EXCEPT !.numbers = <<guard.retry_after>>]
               /\ UNCHANGED <<_SESSIONS, issued>>
          ELSE IF ~verified
          THEN /\ _AUTH_ATTEMPTS_BY_IP' = failure.by_ip
               /\ _AUTH_ATTEMPTS_BY_ACCOUNT' = failure.by_account
               /\ _AUTH_LOCKOUT_UNTIL_BY_ACCOUNT' = failure.lockout
               /\ res' = Response("auth_login", 0, 401, account_key)
               /\ UNCHANGED <<_SESSIONS, issued>>
          ELSE /\ _AUTH_ATTEMPTS_BY_IP' = guard.by_ip
               /\ _AUTH_ATTEMPTS_BY_ACCOUNT' = success.by_account
               /\ _AUTH_LOCKOUT_UNTIL_BY_ACCOUNT' = success.lockout
               /\ _SESSIONS' = _SESSIONS \cup {token}
               /\ issued' = issued \cup {token}
               /\ res' = [Response("auth_login", 0, 200, account_key)
                             EXCEPT !.numbers = <<token.expiresAt>>]
       /\ UNCHANGED <<db, _EMPLOYEE_CACHE, _CACHE_EXPIRES_AT, today, inflight, now, revoked, loggedOut>>

\* time.time() advances.
Pass(seconds, limit) ==
    /\ res = NoResponse
    /\ now + seconds <= limit
    /\ now' = now + seconds
    /\ UNCHANGED <<db, _EMPLOYEE_CACHE, _CACHE_EXPIRES_AT, today, res, inflight, _AUTH_ATTEMPTS_BY_IP,
                   _AUTH_ATTEMPTS_BY_ACCOUNT, _AUTH_LOCKOUT_UNTIL_BY_ACCOUNT,
                   _SESSIONS, revoked, issued, loggedOut>>

\* The response reaches the client of the login service.
Answer ==
    /\ res # NoResponse
    /\ res' = NoResponse
    /\ UNCHANGED <<db, _EMPLOYEE_CACHE, _CACHE_EXPIRES_AT, today, inflight, auth>>

\* Logins, right and wrong, from one address for one account.
NextGuard ==
    \/ \E ip \in Ips, key \in {"user:admin"}, verified \in BOOLEAN :
          /\ verified => Cardinality(issued) < MaxTokens
          /\ auth_login(ip, key, verified)
    \/ Pass(ClockStep, MaxNow)
    \/ Answer

SpecGuard == Init /\ [][NextGuard]_vars

\* ---- requests that interleave between their commits ------------------------
\* A request under way: the handler, the step it has reached, and what its
\* session holds: the offer it loaded and that offer's status, the payload,
\* the number it generated, the rental it inserted, the status it answers;
\* for a login the address, the account key and whether the credentials are
\* right; for an approval the rental, the request lines it loaded and the
\* lines it added to its session; for a directory lookup the employee asked
\* for, the time the call read, the mapping it parsed (none before the fetch)
\* and the mapping it returned.
Request(op, pc, code) ==
    [op |-> op, pc |-> pc, code |-> code, offer |-> 0, status |-> "", req |-> <<>>,
     startDate |-> 0, endDate |-> 0, number |-> <<>>, created |-> 0,
     client_ip |-> "", account_key |-> "", verified |-> FALSE,
     rental |-> 0, request_lines |-> {}, added |-> <<>>,
     employee_id |-> 0, started |-> 0, parsed |-> <<>>, directory |-> {}]

\* checkout_offer, its select of the offer (846-853).
checkout_offer_select(p, offer_number, startDate, endDate) ==
    LET found == {r \in 1..Len(rentals) : rentals[r].RentalNumber = offer_number}
        offer == CHOOSE r \in found : \A q \in found : r <= q
    IN /\ p \notin DOMAIN inflight
       /\ inflight' = inflight @@ (p :>
             IF found = {} \/ _normalize_state(rentals[offer].Status) # "Offer"
             THEN Request("checkout_offer", "done", 404)
             ELSE [Request("checkout_offer", "selected", 0) EXCEPT
                      !.offer = offer, !.status = rentals[offer].Status,
                      !.req = OfferRequest(SetToSeq(RentalItems(items, offer))),
                      !.startDate = startDate, !.endDate = endDate])
       /\ UNCHANGED <<rentals, items, instStatus, notifications, today, res, auth,
                   _EMPLOYEE_CACHE, _CACHE_EXPIRES_AT>>

\* checkout_offer, its call of create_rental (877) up to the commit of the
\* new rental (1061-1062).
checkout_offer_create(p) ==
    /\ p \in DOMAIN inflight
    /\ inflight[p].op = "checkout_offer" /\ inflight[p].pc = "selected"
    /\ LET out == CreateOutcome("Reserved", inflight[p].startDate, inflight[p].endDate,
                                inflight[p].req)
       IN IF ~out.ok
          THEN /\ inflight' = [inflight EXCEPT ![p].pc = "done", ![p].code = 400]
               /\ UNCHANGED <<rentals, items>>
          ELSE /\ rentals' = out.rentals
               /\ items' = out.items
               /\ inflight' = [inflight EXCEPT ![p].pc = "created", ![p].created = out.rid]
    /\ UNCHANGED <<instStatus, notifications, today, res, auth,
                   _EMPLOYEE_CACHE, _CACHE_EXPIRES_AT>>

\* checkout_offer, the transition of the loaded offer and its commit (878-880).
checkout_offer_close(p) ==
    /\ p \in DOMAIN inflight
    /\ inflight[p].op = "checkout_offer" /\ inflight[p].pc = "created"
    /\ LET t == _transition_state(inflight[p].status, "Closed")
       IN IF ~t.ok
          THEN /\ inflight' = [inflight EXCEPT ![p].pc = "done", ![p].code = 400]
               /\ UNCHANGED rentals
          ELSE /\ rentals' = [rentals EXCEPT ![inflight[p].offer].Status = t.Status]
               /\ inflight' = [inflight EXCEPT ![p].pc = "done", ![p].code = 200]
    /\ UNCHANGED <<items, instStatus, notifications, today, res, auth,
                   _EMPLOYEE_CACHE, _CACHE_EXPIRES_AT>>

\* create_rental up to the number it generates from the stored numbers
\* (1011-1031).
create_rental_number(p, status, startDate, endDate, req) ==
    LET initial_status == _normalize_state(status)
    IN /\ p \notin DOMAIN inflight
       /\ inflight' = inflight @@ (p :>
             IF endDate < startDate \/ initial_status \notin {"Offer", "Reserved"}
             THEN Request("create_rental", "done", 400)
             ELSE [Request("create_rental", "numbered", 0) EXCEPT
                      !.status = status, !.req = req,
                      !.startDate = startDate, !.endDate = endDate,
                      !.number = IF initial_status = "Offer"
                                 THEN generate_offer_number
                                 ELSE generate_rental_number])
       /\ UNCHANGED <<rentals, items, instStatus, notifications, today, res, auth,
                   _EMPLOYEE_CACHE, _CACHE_EXPIRES_AT>>

\* create_rental from its lines to the insert and the commit (1033-1062).
create_rental_insert(p) ==
    /\ p \in DOMAIN inflight
    /\ inflight[p].op = "create_rental" /\ inflight[p].pc = "numbered"
    /\ LET out == CreateOutcome(inflight[p].status, inflight[p].startDate,
                                inflight[p].endDate, inflight[p].req)
       IN IF ~out.ok
          THEN /\ inflight' = [inflight EXCEPT ![p].pc = "done", ![p].code = 400]
               /\ UNCHANGED <<rentals, items>>
          ELSE /\ rentals' = [out.rentals EXCEPT
                                ![out.rid].RentalNumber = inflight[p].number]
               /\ items' = out.items
               /\ inflight' = [inflight EXCEPT ![p].pc = "done", ![p].code = 200,
                                               ![p].created = out.rid]
    /\ UNCHANGED <<instStatus, notifications, today, res, auth,
                   _EMPLOYEE_CACHE, _CACHE_EXPIRES_AT>>

\* The store holds one offer of one unit or two.
InitRequests ==
    /\ \E e \in 1..MaxDate, q \in 1..MaxQty :
          LET offer == [StoredRental(1, "Offer", 1, e) EXCEPT !.RentalNumber = <<"YY", 1>>]
              line == [StoredLine(1, 1, "Offer") EXCEPT !.ToolInstanceID = 0,
                                                       !.Quantity = q]
              cost == recalc_total_cost(offer, <<line>>, {1})
          IN /\ rentals = <<[offer EXCEPT !.TotalCost = cost.TotalCost]>>
             /\ items = cost.items
    /\ instStatus = [i \in Instances |-> "Available"]
    /\ notifications = <<>>
    /\ today = 1
    /\ res = NoResponse /\ InitOutside

NextRequests ==
    \/ \E p \in 1..MaxRequests, n \in {<<"YY", 1>>, <<"RNT", 1>>},
          a \in 1..MaxDate, b \in 1..MaxDate : checkout_offer_select(p, n, a, b)
    \/ \E p \in 1..MaxRequests : checkout_offer_create(p)
    \/ \E p \in 1..MaxRequests : checkout_offer_close(p)
    \/ \E p \in 1..MaxRequests, s \in {"Offer", "Reserved", "Active"},
          a \in 1..MaxDate, b \in 1..MaxDate :
          create_rental_number(p, s, a, b, <<[toolID |-> 1, quantity |-> 1, dailyCost |-> -1]>>)
    \/ \E p \in 1..MaxRequests : create_rental_insert(p)

SpecRequests == InitRequests /\ [][NextRequests]_vars

\* ---- approvals that interleave between the reads and the commit ---------------
\* decide_rental, the approve branch up to the return of
\* _allocate_reservation_lines (1097-1133): the rental and its lines are
\* loaded, the available instances are read and ranked, and the new lines
\* and the changes of the loaded rows wait in the session.
decide_rental_allocate(p, rid) ==
    /\ p \notin DOMAIN inflight
    /\ inflight' = inflight @@ (p :>
          IF rid > Len(rentals)
          THEN Request("decide_rental", "done", 404)
          ELSE IF _apply_runtime_state(rentals[rid]) # "Reserved"
          THEN Request("decide_rental", "done", 400)
          ELSE [Request("decide_rental", "allocated", 0) EXCEPT
                   !.rental = rid,
                   !.request_lines = RequestLines(items, rid),
                   !.added = _allocate_reservation_lines(items, rid).added])
    /\ UNCHANGED <<rentals, items, instStatus, notifications, today, res, auth,
                   _EMPLOYEE_CACHE, _CACHE_EXPIRES_AT>>

\* decide_rental, the approve branch from the notification to the commit
\* (1135-1144): the session writes the rows it changed and the rows it added.
decide_rental_commit(p) ==
    /\ p \in DOMAIN inflight
    /\ inflight[p].op = "decide_rental" /\ inflight[p].pc = "allocated"
    /\ LET rid == inflight[p].rental
           alloc == Allocation(items, inflight[p].request_lines, inflight[p].added)
           cost == recalc_total_cost(rentals[rid], alloc.items, RentalItems(items, rid))
       IN /\ rentals' = [rentals EXCEPT ![rid].TotalCost = cost.TotalCost]
          /\ items' = cost.items \o alloc.added
          /\ instStatus' = [i \in Instances |->
                              IF i \in alloc.reserved THEN "Reserved" ELSE instStatus[i]]
          /\ notifications' = Append(notifications, Notification(rid, "ReservationApproved"))
          /\ inflight' = [inflight EXCEPT ![p].pc = "done", ![p].code = 200]
    /\ UNCHANGED <<today, res, auth,
                   _EMPLOYEE_CACHE, _CACHE_EXPIRES_AT>>

\* Two reservations for the tool from day 1 on, neither approved yet.
InitApproves ==
    /\ \E e1 \in 1..MaxDate, e2 \in 1..MaxDate :
          rentals = <<StoredRental(1, "Reserved", 1, e1), StoredRental(2, "Reserved", 1, e2)>>
    /\ \E q1 \in 1..MaxQty, q2 \in 1..MaxQty :
          items = <<[StoredLine(1, 1, "Pending Approval") EXCEPT
                        !.ToolInstanceID = 0, !.Quantity = q1],
                    [StoredLine(2, 1, "Pending Approval") EXCEPT
                        !.ToolInstanceID = 0, !.Quantity = q2]>>
    /\ instStatus = [i \in Instances |-> "Available"]
    /\ notifications = <<>>
    /\ today = 1
    /\ res = NoResponse /\ InitOutside

NextApproves ==
    \/ \E p \in 1..MaxRequests, rid \in 1..Len(rentals) : decide_rental_allocate(p, rid)
    \/ \E p \in 1..MaxRequests : decide_rental_commit(p)

SpecApproves == InitApproves /\ [][NextApproves]_vars

\* ---- sessions (services/user_access_service.py) ------------------------------
\* A request without the X-Session-Token header.
NoToken == [account |-> "", expiresAt |-> 0, signature |-> ""]

\* A token whose payload was rewritten to expire later, under the signature
\* of the original.
Forged(token) == [token EXCEPT !.expiresAt = @ + SESSION_TTL_SECONDS,
                               !.signature = "forged"]

\* get_session (239-280): the session of the token, or None (ok = FALSE), with
\* the cache and the revocation file as the call leaves them.  The file maps
\* each revoked token to the expiry the token carries.
get_session(token, sessions, revoked_tokens) ==
    LET kept == {t \in revoked_tokens : ~(now >= t.expiresAt)}
    IN IF token = NoToken \/ token.signature # "valid"
       THEN [ok |-> FALSE, sessions |-> sessions, revoked |-> revoked_tokens]
       ELSE IF now >= token.expiresAt
       THEN [ok |-> FALSE, sessions |-> sessions \ {token}, revoked |-> revoked_tokens]
       ELSE IF token \in kept
       THEN [ok |-> FALSE, sessions |-> sessions \ {token}, revoked |-> kept]
       ELSE [ok |-> TRUE, sessions |-> sessions \cup {token}, revoked |-> kept]

remove_session_cached(token, sessions, revoked_tokens) ==
    [sessions |-> sessions \ {token}, revoked |-> revoked_tokens]

\* remove_session (283-300): the token leaves the cache and, unless it has
\* expired, enters the revocation file.
remove_session(token, sessions, revoked_tokens) ==
    IF token = NoToken
    THEN [sessions |-> sessions, revoked |-> revoked_tokens]
    ELSE IF token.expiresAt <= now
    THEN [sessions |-> sessions \ {token}, revoked |-> revoked_tokens]
    ELSE [sessions |-> sessions \ {token}, revoked |-> revoked_tokens \cup {token}]

\* auth_logout (415-419).  loggedOut remembers the tokens logout was called
\* with.
auth_logout(token) ==
    LET removed == remove_session(token, _SESSIONS, revoked)
    IN /\ res = NoResponse
       /\ _SESSIONS' = removed.sessions
       /\ revoked' = removed.revoked
       /\ loggedOut' = IF token = NoToken THEN loggedOut ELSE loggedOut \cup {token}
       /\ res' = [Response("auth_logout", 0, 200, "ok")
                     EXCEPT !.numbers = <<token.expiresAt>>]
       /\ UNCHANGED <<db, _EMPLOYEE_CACHE, _CACHE_EXPIRES_AT, today, inflight, now, _AUTH_ATTEMPTS_BY_IP,
                      _AUTH_ATTEMPTS_BY_ACCOUNT, _AUTH_LOCKOUT_UNTIL_BY_ACCOUNT, issued>>

\* auth_me (423-425) through _require_session_or_401 and _get_active_session
\* (2197-2212): a request whose cookie holds a user is answered from the
\* cookie, any other from the token.  numbers holds the expiry the presented
\* token carries.
auth_me(token, cookie) ==
    LET session == get_session(token, _SESSIONS, revoked)
    IN /\ res = NoResponse
       /\ IF cookie
          THEN /\ res' = [Response("auth_me", 0, 200, "cookie")
                            EXCEPT !.numbers = <<token.expiresAt>>]
               /\ UNCHANGED <<_SESSIONS, revoked>>
          ELSE /\ _SESSIONS' = session.sessions
               /\ revoked' = session.revoked
               /\ res' = [Response("auth_me", 0, IF session.ok THEN 200 ELSE 401,
                                   IF session.ok THEN token.account ELSE "Not logged in.")
                            EXCEPT !.numbers = <<token.expiresAt>>]
       /\ UNCHANGED <<db, _EMPLOYEE_CACHE, _CACHE_EXPIRES_AT, today, inflight, now, _AUTH_ATTEMPTS_BY_IP,
                      _AUTH_ATTEMPTS_BY_ACCOUNT, _AUTH_LOCKOUT_UNTIL_BY_ACCOUNT,
                      issued, loggedOut>>

\* What a client can put in the header: nothing, a token it was issued, or
\* one it rewrote.
Tokens == {NoToken} \cup issued \cup {Forged(t) : t \in issued}

\* Logins, requests and logouts while the clock runs past the expiry of the
\* tokens.
NextSessions ==
    \/ \E ip \in Ips, key \in {"user:admin"} :
          /\ Cardinality(issued) < MaxSessions
          /\ auth_login(ip, key, TRUE)
    \/ \E token \in Tokens : auth_logout(token)
    \/ \E token \in Tokens, cookie \in BOOLEAN : auth_me(token, cookie)
    \/ Pass(SessionStep, MaxSessionNow)
    \/ Answer

SpecSessions == Init /\ [][NextSessions]_vars

\* ---- logins that interleave between the guard and the record ----------------
\* auth_login up to the answer of _check_login_guard (304-334).
auth_login_check(p, client_ip, account_key, verified) ==
    LET guard == _check_login_guard(client_ip, account_key, _AUTH_ATTEMPTS_BY_IP,
                                    _AUTH_ATTEMPTS_BY_ACCOUNT,
                                    _AUTH_LOCKOUT_UNTIL_BY_ACCOUNT)
    IN /\ p \notin DOMAIN inflight
       /\ _AUTH_ATTEMPTS_BY_IP' = guard.by_ip
       /\ _AUTH_ATTEMPTS_BY_ACCOUNT' = guard.by_account
       /\ _AUTH_LOCKOUT_UNTIL_BY_ACCOUNT' = guard.lockout
       /\ inflight' = inflight @@ (p :>
             [Request("auth_login", IF guard.retry_after # 0 THEN "done" ELSE "admitted",
                      IF guard.retry_after # 0 THEN 429 ELSE 0)
                 EXCEPT !.client_ip = client_ip, !.account_key = account_key,
                        !.verified = verified])
       /\ UNCHANGED <<db, _EMPLOYEE_CACHE, _CACHE_EXPIRES_AT, today, res, now, _SESSIONS, revoked, issued, loggedOut>>

\* auth_login from the credential check to _record_login_failure or
\* _record_login_success (336-363).
auth_login_record(p) ==
    /\ p \in DOMAIN inflight
    /\ inflight[p].op = "auth_login" /\ inflight[p].pc = "admitted"
    /\ LET failure == _record_login_failure(inflight[p].client_ip, inflight[p].account_key,
                                            _AUTH_ATTEMPTS_BY_IP, _AUTH_ATTEMPTS_BY_ACCOUNT,
                                            _AUTH_LOCKOUT_UNTIL_BY_ACCOUNT)
           success == _record_login_success(inflight[p].account_key,
                                            _AUTH_ATTEMPTS_BY_ACCOUNT,
                                            _AUTH_LOCKOUT_UNTIL_BY_ACCOUNT)
           token == create_session(inflight[p].account_key)
       IN IF ~inflight[p].verified
          THEN /\ _AUTH_ATTEMPTS_BY_IP' = failure.by_ip
               /\ _AUTH_ATTEMPTS_BY_ACCOUNT' = failure.by_account
               /\ _AUTH_LOCKOUT_UNTIL_BY_ACCOUNT' = failure.lockout
               /\ inflight' = [inflight EXCEPT ![p].pc = "done", ![p].code = 401]
               /\ UNCHANGED <<_SESSIONS, issued>>
          ELSE /\ _AUTH_ATTEMPTS_BY_ACCOUNT' = success.by_account
               /\ _AUTH_LOCKOUT_UNTIL_BY_ACCOUNT' = success.lockout
               /\ _SESSIONS' = _SESSIONS \cup {token}
               /\ issued' = issued \cup {token}
               /\ inflight' = [inflight EXCEPT ![p].pc = "done", ![p].code = 200]
               /\ UNCHANGED _AUTH_ATTEMPTS_BY_IP
    /\ UNCHANGED <<db, _EMPLOYEE_CACHE, _CACHE_EXPIRES_AT, today, res, now, revoked, loggedOut>>

\* n failures of one request at a time.
Failures(n) == [k \in 1..n |-> 0]

\* The guard after up to seven failures for the account, from its address
\* alone or with failures for other accounts up to one below the address
\* threshold.
InitLogins ==
    /\ rentals = <<>>
    /\ items = <<>>
    /\ instStatus = [i \in Instances |-> "Available"]
    /\ notifications = <<>>
    /\ today = 1
    /\ res = NoResponse
    /\ inflight = <<>>
    /\ now = 0
    /\ \E n \in 0..(AUTH_MAX_ATTEMPTS_PER_ACCOUNT - 1) :
          /\ _AUTH_ATTEMPTS_BY_ACCOUNT =
                [key \in Accounts |-> IF key = "user:admin" THEN Failures(n) ELSE <<>>]
          /\ \E m \in {n, AUTH_MAX_ATTEMPTS_PER_IP - 1} :
                _AUTH_ATTEMPTS_BY_IP = [ip \in Ips |-> Failures(m)]
    /\ _AUTH_LOCKOUT_UNTIL_BY_ACCOUNT = [key \in Accounts |-> 0]
    /\ _SESSIONS = {}
    /\ revoked = {}
    /\ issued = {}
    /\ loggedOut = {}
    /\ _EMPLOYEE_CACHE = {}
    /\ _CACHE_EXPIRES_AT = 0

NextLogins ==
    \/ \E p \in 1..MaxRequests, ip \in Ips, key \in Accounts, verified \in BOOLEAN :
          auth_login_check(p, ip, key, verified)
    \/ \E p \in 1..MaxRequests : auth_login_record(p)
    \/ Pass(ClockStep, AUTH_ATTEMPT_WINDOW_SECONDS)

SpecLogins == InitLogins /\ [][NextLogins]_vars

\* ---- the employee directory (services/employee_directory_service.py) ---------
_CACHE_TTL_SECONDS == 300

\* What a successful fetch of the directory can parse to, as the normalized
\* numbers of its entries: employee 1 stays, employee 2 leaves and employee 3
\* joins.
Directories == {{1, 2}, {1, 3}}

\* _require_employee_or_400, its lookup in the mapping it received
\* (AssetMan.py 2259-2262).
_require_employee_or_400(directory, employee_id) ==
    IF employee_id \in directory THEN 200 ELSE 400

\* get_employee_directory, the time it reads and its test of the cache
\* (95-96).  The handlers that call it are plain functions, which the server
\* runs on the threads of a pool; no lock guards the cache.
get_employee_directory_test(p, force_refresh, employee_id) ==
    /\ p \notin DOMAIN inflight
    /\ inflight' = inflight @@ (p :>
          [Request("get_employee_directory",
                   IF ~force_refresh /\ _EMPLOYEE_CACHE # {} /\ now < _CACHE_EXPIRES_AT
                   THEN "cached" ELSE "expired", 0)
              EXCEPT !.employee_id = employee_id, !.started = now])
    /\ UNCHANGED <<rentals, items, instStatus, notifications, today, res, auth,
                   _EMPLOYEE_CACHE, _CACHE_EXPIRES_AT>>

\* get_employee_directory, the fetch and the parse of its rows (99-107): the
\* service answers with a directory, or _fetch_employee_rows raises and the
\* caller answers 503 (AssetMan.py 2253-2257).
get_employee_directory_fetch(p) ==
    /\ p \in DOMAIN inflight
    /\ inflight[p].op = "get_employee_directory" /\ inflight[p].pc = "expired"
    /\ \/ inflight' = [inflight EXCEPT ![p].pc = "done", ![p].code = 503]
       \/ \E parsed \in Directories :
             inflight' = [inflight EXCEPT ![p].pc = "parsed", ![p].parsed = <<parsed>>]
    /\ UNCHANGED <<rentals, items, instStatus, notifications, today, res, auth,
                   _EMPLOYEE_CACHE, _CACHE_EXPIRES_AT>>

\* _EMPLOYEE_CACHE.clear() (109).
get_employee_directory_clear(p) ==
    /\ p \in DOMAIN inflight
    /\ inflight[p].op = "get_employee_directory" /\ inflight[p].pc = "parsed"
    /\ _EMPLOYEE_CACHE' = {}
    /\ inflight' = [inflight EXCEPT ![p].pc = "cleared"]
    /\ UNCHANGED <<rentals, items, instStatus, notifications, today, res, auth,
                   _CACHE_EXPIRES_AT>>

\* _EMPLOYEE_CACHE.update(parsed) (110): the entries join what the cache
\* holds.
get_employee_directory_update(p) ==
    /\ p \in DOMAIN inflight
    /\ inflight[p].op = "get_employee_directory" /\ inflight[p].pc = "cleared"
    /\ _EMPLOYEE_CACHE' = _EMPLOYEE_CACHE \cup inflight[p].parsed[1]
    /\ inflight' = [inflight EXCEPT ![p].pc = "updated"]
    /\ UNCHANGED <<rentals, items, instStatus, notifications, today, res, auth,
                   _CACHE_EXPIRES_AT>>

\* _CACHE_EXPIRES_AT = now + _CACHE_TTL_SECONDS (111), from the time the call
\* read at its start.
get_employee_directory_expire(p) ==
    /\ p \in DOMAIN inflight
    /\ inflight[p].op = "get_employee_directory" /\ inflight[p].pc = "updated"
    /\ _CACHE_EXPIRES_AT' = inflight[p].started + _CACHE_TTL_SECONDS
    /\ inflight' = [inflight EXCEPT ![p].pc = "stored"]
    /\ UNCHANGED <<rentals, items, instStatus, notifications, today, res, auth,
                   _EMPLOYEE_CACHE>>

\* get_employee_directory, return dict(_EMPLOYEE_CACHE) of the cached mapping
\* (97) and after the refresh (112): the caller receives a copy of the cache
\* as it is now and looks the employee up in it.
get_employee_directory_return(p) ==
    /\ p \in DOMAIN inflight
    /\ inflight[p].op = "get_employee_directory"
    /\ inflight[p].pc \in {"cached", "stored"}
    /\ inflight' = [inflight EXCEPT
          ![p].pc = "done",
          ![p].directory = _EMPLOYEE_CACHE,
          ![p].code = _require_employee_or_400(_EMPLOYEE_CACHE, inflight[p].employee_id)]
    /\ UNCHANGED <<rentals, items, instStatus, notifications, today, res, auth,
                   _EMPLOYEE_CACHE, _CACHE_EXPIRES_AT>>

\* Lookups of an employee, with and without a forced refresh, while the time
\* runs up to the end of the cache's life.
NextDirectory ==
    \/ \E p \in 1..MaxRequests, force_refresh \in BOOLEAN, employee_id \in {1, 2} :
          get_employee_directory_test(p, force_refresh, employee_id)
    \/ \E p \in 1..MaxRequests : get_employee_directory_fetch(p)
    \/ \E p \in 1..MaxRequests : get_employee_directory_clear(p)
    \/ \E p \in 1..MaxRequests : get_employee_directory_update(p)
    \/ \E p \in 1..MaxRequests : get_employee_directory_expire(p)
    \/ \E p \in 1..MaxRequests : get_employee_directory_return(p)
    \/ Pass(ClockStep, _CACHE_TTL_SECONDS)

SpecDirectory == Init /\ [][NextDirectory]_vars

\* ---- properties ------------------------------------------------------------
Blocking == {"Reserved", "Active", "Overdue"}

RangesOverlap(a, b) == a.StartDate <= b.EndDate /\ a.EndDate >= b.StartDate

\* C1: in every reachable state no tool instance is referenced by line items
\* of two different rentals that are both Reserved, Active or Overdue and whose
\* date ranges overlap.
C1_NoDoubleBooking ==
    \A k1 \in 1..Len(items), k2 \in 1..Len(items) :
        (/\ items[k1].ToolInstanceID # 0
         /\ items[k1].ToolInstanceID = items[k2].ToolInstanceID
         /\ items[k1].RentalID # items[k2].RentalID
         /\ rentals[items[k1].RentalID].Status \in Blocking
         /\ rentals[items[k2].RentalID].Status \in Blocking)
        => ~RangesOverlap(rentals[items[k1].RentalID], rentals[items[k2].RentalID])

\* C2: in every reachable state every instance whose status is Reserved or
\* In Rental is referenced by a line item of some Reserved, Active or Overdue
\* rental.
C2_BusyInstanceIsHeld ==
    \A i \in Instances :
        instStatus[i] \in {"Reserved", "In Rental"}
        => \E k \in 1..Len(items) :
              /\ items[k].ToolInstanceID = i
              /\ rentals[items[k].RentalID].Status \in Blocking

\* The transition table as the specification lists it.
Listed(from, to) ==
    \/ from = "Offer" /\ to \in {"Reserved", "Closed"}
    \/ from = "Reserved" /\ to \in {"Active", "Closed"}
    \/ from = "Active" /\ to \in {"Overdue", "Returned", "Closed"}
    \/ from = "Overdue" /\ to \in {"Active", "Returned", "Closed"}
    \/ from = "Returned" /\ to = "Closed"

\* C3: _transition_state succeeds and sets the status to `to` exactly when
\* `to` is listed for `from`; every other pair, from = to and the sources
\* Cancelled and Lost included, fails with the invalid-transition error naming
\* source and target and leaves the status unchanged.
C3_TransitionIffListed ==
    [][res'.op = "_transition_state" =>
          LET from == _normalize_state(rentals[1].Status)
              to == res'.states[2]
          IN IF Listed(from, to)
             THEN res'.code = 200 /\ rentals'[1].Status = to
             ELSE /\ res'.code = 400
                  /\ res'.detail = "Invalid state transition"
                  /\ res'.states = <<from, to>>
                  /\ rentals' = rentals]_vars

\* C4: each change of a rental's stored status follows an edge of the
\* transition table, except mark-lost setting Lost.
C4_StatusChangesFollowTable ==
    [][\A r \in 1..Len(rentals) :
          rentals'[r].Status # rentals[r].Status
          => \/ Listed(rentals[r].Status, rentals'[r].Status)
             \/ res'.op = "mark_rental_lost" /\ rentals'[r].Status = "Lost"]_vars

\* C5: once a rental is Closed, Cancelled or Lost no operation changes its
\* status, its end date or its loss metadata; mark-lost on such a rental fails
\* and changes nothing.
C5_TerminalAbsorbing ==
    [][\A r \in 1..Len(rentals) :
          rentals[r].Status \in {"Closed", "Cancelled", "Lost"}
          => /\ rentals'[r].Status = rentals[r].Status
             /\ rentals'[r].EndDate = rentals[r].EndDate
             /\ rentals'[r].LossAmount = rentals[r].LossAmount
             /\ (res'.op = "mark_rental_lost" /\ res'.rid = r
                    => res'.code = 400 /\ rentals' = rentals)]_vars

\* The alias table as the specification gives it.
Canonical(status) == IF status \in {"Pending", "Approved"} THEN "Reserved" ELSE status

\* An instance is free for a tool and a range when it is of the tool, its
\* status is Available, no line of a rental that is Reserved, Active or Overdue
\* after alias normalization and whose range meets the given one references
\* it, and it needs no certification or is calibrated up to the end date.
Free(i, tool, start, end) ==
    /\ ToolOf(i) = tool
    /\ instStatus[i] = "Available"
    /\ ~\E k \in 1..Len(items) :
           /\ items[k].ToolInstanceID = i
           /\ Canonical(rentals[items[k].RentalID].Status) \in Blocking
           /\ rentals[items[k].RentalID].StartDate <= end
           /\ rentals[items[k].RentalID].EndDate >= start
    /\ (RequiresCertification(i) =>
           NextCalibration(i) # 0 /\ NextCalibration(i) >= end)

\* C6: the resolver returns an instance of the tool exactly when (a) its status
\* is Available, (b) no line of a rental that is, after alias normalization,
\* Reserved, Active or Overdue and whose range meets the requested one
\* references it, and (c) it needs no certification or its next calibration is
\* present and on or after the end date.
C6_ResolverReturnsExactlyTheFree ==
    res.op = "get_rental_availability" /\ res.code = 200 =>
        \A i \in Instances :
            i \in SeqRange(res.ids) <=>
                Free(i, res.numbers[1], res.numbers[2], res.numbers[3])

\* The resolver leaves out an Available, calibrated instance held by a rental
\* stored as Pending over the requested day and returns the other one.
C6_Witness ==
    /\ res.op = "get_rental_availability" /\ res.code = 200
    /\ res.numbers[2] = 1 /\ res.numbers[3] = 1
    /\ rentals[1].Status = "Pending"
    /\ items[1].ToolInstanceID = 2
    /\ instStatus[2] = "Available"
    /\ res.ids = <<1>>

\* Usage of an instance: the sum, over the lines of non-Offer rentals that
\* reference it, of max(1, end - start).
RECURSIVE UsageUpTo(_, _)
UsageUpTo(i, k) ==
    IF k = 0 THEN 0
    ELSE UsageUpTo(i, k - 1) +
         (IF items[k].ToolInstanceID = i /\ rentals[items[k].RentalID].Status # "Offer"
          THEN Max(1, rentals[items[k].RentalID].EndDate
                          - rentals[items[k].RentalID].StartDate)
          ELSE 0)

Usage(i) == UsageUpTo(i, Len(items))

\* C7: the ranker returns a permutation of the candidates in descending usage,
\* ties in ascending instance identifier.
C7_RankedByUsageThenId ==
    res.op = "_rank_instances_for_allocation" =>
        /\ Len(res.ids) = Len(res.numbers)
        /\ SeqRange(res.ids) = SeqRange(res.numbers)
        /\ \A n \in 1..Len(res.ids), m \in 1..Len(res.ids) :
              n < m =>
                 \/ Usage(res.ids[n]) > Usage(res.ids[m])
                 \/ /\ Usage(res.ids[n]) = Usage(res.ids[m])
                    /\ res.ids[n] < res.ids[m]

\* Usage {1: 10, 2: 3, 3: 10} is ranked <<1, 3, 2>>.
C7_Witness ==
    /\ res.op = "_rank_instances_for_allocation"
    /\ Usage(1) = 10 /\ Usage(2) = 3 /\ Usage(3) = 10
    /\ res.ids = <<1, 3, 2>>

\* The status of a rental after alias normalization and overdue promotion.
Promoted(rental) ==
    IF Canonical(rental.Status) = "Active" /\ rental.EndDate < today
    THEN "Overdue"
    ELSE Canonical(rental.Status)

\* C8: a read (get_rental or get_rentals) of a rental stored as Active with an
\* end date before today returns and stores Overdue and changes nothing else;
\* a read of a rental stored as Active that ends today or later leaves it
\* Active; and a read of the state a read has left changes nothing, so no
\* further status change and no notification follows from repeating it.
C8_ReadPromotesOnce ==
    [][res = NoResponse /\ res'.op \in {"get_rental", "get_rentals"} /\ res'.code = 200 =>
          /\ Len(rentals') = Len(rentals)
          /\ \A r \in 1..Len(rentals) :
                IF res'.op = "get_rental" /\ r # res'.rid
                THEN rentals'[r] = rentals[r]
                ELSE /\ (rentals[r].Status = "Active" /\ rentals[r].EndDate < today =>
                            /\ rentals'[r] = [rentals[r] EXCEPT !.Status = "Overdue"]
                            /\ (res'.op = "get_rental" => res'.detail = "Overdue"))
                     /\ (rentals[r].Status = "Active" /\ rentals[r].EndDate >= today =>
                            rentals'[r] = rentals[r])
                     /\ Promoted(rentals'[r]) = rentals'[r].Status
                     /\ (Promoted(rentals[r]) = rentals[r].Status =>
                            rentals'[r] = rentals[r])
          /\ UNCHANGED <<items, instStatus, notifications, today>>]_vars

\* A read has returned Overdue for a rental that is stored as Overdue and
\* ended before today.
C8_Witness ==
    /\ res.op = "get_rental" /\ res.code = 200
    /\ res.detail = "Overdue"
    /\ rentals[res.rid].Status = "Overdue"
    /\ rentals[res.rid].EndDate < today
    /\ rentals[res.rid].ActualEnd = 0

\* The requested quantity of a tool outstanding on a rental once the lines
\* given the exclude action are zeroed.
RECURSIVE Outstanding(_, _, _, _)
Outstanding(rid, tool, shortage_actions, k) ==
    IF k = 0 THEN 0
    ELSE Outstanding(rid, tool, shortage_actions, k - 1) +
         (IF /\ items[k].RentalID = rid
             /\ items[k].ToolID = tool
             /\ ~\E n \in 1..Len(shortage_actions) :
                    /\ shortage_actions[n].rentalItemID = k
                    /\ shortage_actions[n].action = "exclude"
          THEN items[k].Quantity ELSE 0)

Min(a, b) == IF a < b THEN a ELSE b

\* What approval leaves for one tool with outstanding quantity q and n free
\* instances: lines added after the existing ones.
ApprovedTool(rid, tool, q, free) ==
    LET n == Cardinality(free)
        new == {k \in (Len(items) + 1)..Len(items') : items'[k].ToolID = tool}
        bound == {k \in new : items'[k].ToolInstanceID # 0}
        short == new \ bound
    IN /\ Cardinality(bound) = Min(q, n)
       /\ Cardinality({items'[k].ToolInstanceID : k \in bound}) = Cardinality(bound)
       /\ \A k \in bound :
             /\ items'[k].RentalID = rid
             /\ items'[k].ToolInstanceID \in free
             /\ items'[k].Quantity = 1
             /\ items'[k].state = "Reserved"
       /\ (q > n <=> short # {})
       /\ Cardinality(short) <= 1
       /\ \A k \in short :
             /\ items'[k].RentalID = rid
             /\ items'[k].Quantity = q - n
             /\ items'[k].state = "Pending Pickup"

\* C9: approve on a Reserved rental succeeds whatever the inventory and leaves
\* the rental Reserved; for each tool with outstanding quantity q (lines given
\* the exclude action zeroed) and n free instances over the rental's range it
\* adds min(q, n) bound lines of quantity 1 in state Reserved and, exactly when
\* q > n, one unbound line of quantity q - n in state Pending Pickup; the
\* request lines end with quantity 0 in state Superseded; and the reserved
\* count plus the shortage quantity is q.
C9_ApproveAllocatesOrRecordsShortage ==
    [][res = NoResponse /\ res'.op = "decide_rental" =>
          \A rid \in 1..Len(rentals), shortage_actions \in ShortageActions :
              /\ Promoted(rentals[rid]) = "Reserved"
              /\ decide_rental(rid, "approve", "", shortage_actions)
              => /\ res'.code = 200
                 /\ rentals'[rid].Status = "Reserved"
                 /\ \A tool \in Tools :
                       ApprovedTool(rid, tool,
                           Outstanding(rid, tool, shortage_actions, Len(items)),
                           {i \in Instances :
                               Free(i, tool, rentals[rid].StartDate,
                                    rentals[rid].EndDate)})
                 /\ \A k \in 1..Len(items) :
                       /\ items[k].RentalID = rid
                       /\ items[k].Quantity > 0
                       /\ Outstanding(rid, items[k].ToolID, shortage_actions, k) >
                             Outstanding(rid, items[k].ToolID, shortage_actions, k - 1)
                       => items'[k].Quantity = 0 /\ items'[k].state = "Superseded"
                 /\ res'.numbers[1] + res'.numbers[2] =
                       Outstanding(rid, 1, shortage_actions, Len(items))]_vars

\* An approval of a request for two with one free instance has bound one line
\* and added a shortage line for the other.
C9_Witness ==
    /\ res.op = "decide_rental" /\ res.code = 200
    /\ res.numbers = <<1, 1>>
    /\ rentals[res.rid].Status = "Reserved"
    /\ \E k \in 1..Len(items) : items[k].Quantity = 0 /\ items[k].state = "Superseded"
    /\ \E k \in 1..Len(items) :
          items[k].ToolInstanceID # 0 /\ items[k].Quantity = 1 /\ items[k].state = "Reserved"
    /\ \E k \in 1..Len(items) :
          /\ items[k].ToolInstanceID = 0
          /\ items[k].Quantity = 1
          /\ items[k].state = "Pending Pickup"

\* C10: a decision on a rental that, after alias normalization and overdue
\* promotion, is not Reserved fails with the invalid-state error; a rejection
\* of a Reserved rental with an empty or blank reason fails with the
\* missing-reason error; both leave the rentals, the lines, the instance
\* statuses and the notification queue as they were.
C10_RefusedDecisionChangesNothing ==
    [][res = NoResponse /\ res'.op = "decide_rental" =>
          \A rid \in 1..Len(rentals), decision \in {"approve", "reject"} :
           \A reason \in IF decision = "reject" THEN {"", " ", "late"} ELSE {""},
              shortage_actions \in IF decision = "reject" THEN {<<>>} ELSE ShortageActions :
              decide_rental(rid, decision, reason, shortage_actions) =>
                 /\ Promoted(rentals[rid]) # "Reserved" =>
                       /\ res'.code = 400
                       /\ res'.detail = "Reservation is not pending decision."
                       /\ db' = db
                 /\ (/\ Promoted(rentals[rid]) = "Reserved"
                     /\ decision = "reject"
                     /\ reason \in {"", " "}) =>
                       /\ res'.code = 400
                       /\ res'.detail = "Reject reason is required."
                       /\ db' = db]_vars

\* A decision was refused on a rental stored as Active past its end date,
\* which is still stored as Active.
C10_Witness ==
    /\ res.op = "decide_rental" /\ res.code = 400
    /\ res.detail = "Reservation is not pending decision."
    /\ rentals[res.rid].Status = "Active"
    /\ rentals[res.rid].EndDate < today

\* The instances bound to a line of a rental.
BoundTo(rid) ==
    {items[k].ToolInstanceID :
        k \in {j \in 1..Len(items) : items[j].RentalID = rid /\ items[j].ToolInstanceID # 0}}

\* C11: a rejection with a reason of a Reserved rental succeeds, stores the
\* rental as Closed, makes Available every instance bound to one of its lines
\* whose status is Reserved, leaves every other instance status (of its own
\* instances that are not Reserved, and of the instances bound only to other
\* rentals) as it was, and appends exactly one rejection notification for the
\* rental; lines and the other rentals are untouched.
C11_RejectClosesAndReleases ==
    [][res = NoResponse /\ res'.op = "decide_rental" =>
          \A rid \in 1..Len(rentals) :
              /\ Promoted(rentals[rid]) = "Reserved"
              /\ decide_rental(rid, "reject", "late", <<>>)
              => /\ res'.code = 200
                 /\ rentals' = [rentals EXCEPT ![rid].Status = "Closed"]
                 /\ \A i \in Instances :
                       instStatus'[i] =
                          IF i \in BoundTo(rid) /\ instStatus[i] = "Reserved"
                          THEN "Available" ELSE instStatus[i]
                 /\ notifications' =
                       Append(notifications,
                              [RentalID |-> rid, NotificationType |-> "ReservationRejected"])
                 /\ items' = items]_vars

\* A rejection has closed a rental and released its instance while the other
\* rental still holds a Reserved instance of its own.
C11_Witness ==
    /\ res.op = "decide_rental" /\ res.code = 200 /\ res.detail = "Reservation rejected"
    /\ rentals[res.rid].Status = "Closed"
    /\ \E i \in BoundTo(res.rid) : instStatus[i] = "Available"
    /\ \E r \in 1..Len(rentals), i \in Instances :
          /\ r # res.rid
          /\ i \in BoundTo(r) \ BoundTo(res.rid)
          /\ instStatus[i] = "Reserved"
    /\ \E n \in 1..Len(notifications) :
          notifications[n] = [RentalID |-> res.rid, NotificationType |-> "ReservationRejected"]

\* C12: a pickup on a rental that, after overdue promotion, is not Reserved,
\* Active or Overdue is refused and changes nothing; a pickup that succeeds
\* on a Reserved rental stores it as Active with the actual start set to
\* today if it was unset; one that succeeds on an Active or Overdue rental
\* stores that status and leaves the actual start alone.
C12_PickupStates ==
    [][res = NoResponse /\ res'.op = "mark_items_for_rental" /\ res'.code # 404 =>
          LET rid == res'.rid
              current == Promoted(rentals[rid])
          IN /\ current \notin {"Reserved", "Active", "Overdue"} =>
                   /\ res'.code = 400
                   /\ res'.detail = "Rental is not in a pickable state."
                   /\ db' = db
             /\ res'.code = 200 /\ current = "Reserved" =>
                   /\ rentals'[rid].Status = "Active"
                   /\ rentals'[rid].ActualStart =
                         IF rentals[rid].ActualStart = 0 THEN today
                         ELSE rentals[rid].ActualStart
             /\ res'.code = 200 /\ current # "Reserved" =>
                   /\ current \in {"Active", "Overdue"}
                   /\ rentals'[rid].Status = current
                   /\ rentals'[rid].ActualStart = rentals[rid].ActualStart]_vars

\* A pickup on the second day has made a Reserved rental Active and set its
\* actual start to that day.
C12_Witness ==
    /\ res.op = "mark_items_for_rental" /\ res.code = 200
    /\ rentals[res.rid].Status = "Active"
    /\ rentals[res.rid].ActualStart = today
    /\ today = 2
    /\ \E k \in 1..Len(items) : items[k].RentalID = res.rid /\ items[k].state = "Picked Up"

\* C13: a pickup that succeeds has bound only chosen instances that exist, are
\* of the line's tool, were Available, were calibrated up to the rental's end
\* date when they require certification, and were referenced by no line of a
\* blocking rental whose range meets the rental's; a pickup refused for a
\* chosen instance names a check some instance fails, and changes nothing.
C13_ChosenInstanceIsValidated ==
    [][res = NoResponse /\ res'.op = "mark_items_for_rental" /\ res'.code # 404 =>
          LET rid == res'.rid
              start == rentals[rid].StartDate
              end == rentals[rid].EndDate
          IN /\ res'.code = 200 =>
                   \A k \in (Len(items) + 1)..Len(items') :
                       items'[k].ToolInstanceID # 0 =>
                          /\ items'[k].ToolInstanceID \in Instances
                          /\ Free(items'[k].ToolInstanceID, items'[k].ToolID, start, end)
             /\ res'.detail = "Selected tool instance is not available." =>
                   /\ db' = db
                   /\ \E i \in Instances : instStatus[i] # "Available"
             /\ res'.detail = "Selected tool instance expires before rental end." =>
                   /\ db' = db
                   /\ \E i \in Instances :
                         /\ RequiresCertification(i)
                         /\ (NextCalibration(i) = 0 \/ NextCalibration(i) < end)
             /\ res'.detail = "Selected tool instance overlaps existing reservation." =>
                   /\ db' = db
                   /\ \E i \in Instances, k \in 1..Len(items) :
                         /\ instStatus[i] = "Available"
                         /\ items[k].ToolInstanceID = i
                         /\ Canonical(rentals[items[k].RentalID].Status) \in Blocking
                         /\ rentals[items[k].RentalID].StartDate <= end
                         /\ rentals[items[k].RentalID].EndDate >= start
             /\ res'.detail = "Invalid tool instance selected." => db' = db]_vars

\* A pickup was refused because the chosen instance, Available and calibrated,
\* is held by the other rental, Active over the same day.
C13_Witness ==
    /\ res.op = "mark_items_for_rental" /\ res.code = 400
    /\ res.detail = "Selected tool instance overlaps existing reservation."
    /\ rentals[1].EndDate = 1
    /\ rentals[2].Status = "Active" /\ rentals[2].StartDate = 1
    /\ items[2].ToolInstanceID = 2
    /\ instStatus[2] = "Available"

\* C14: a pickup or a receive that is refused leaves the rentals, the lines,
\* the instance statuses and the notifications exactly as they were; and a
\* request whose second entry names a line that is not the rental's, or asks
\* for more than the line holds, is refused whatever its first entry did.
C14_RefusedMarksChangeNothing ==
    [][res = NoResponse /\ res'.op \in {"mark_items_for_rental", "receive_marked_items"} =>
          /\ res'.code # 200 => db' = db
          /\ res'.op = "mark_items_for_rental" =>
                \A m \in PickMarkOne, n \in PickMarkTwo :
                    (n.rentalItemID = 2 \/ n.pickedQuantity = 3)
                    /\ mark_items_for_rental(1, <<m, n>>)
                    => res'.code = 400 /\ db' = db
          /\ res'.op = "receive_marked_items" =>
                \A m \in ReceiveMarkOne, n \in ReceiveMarkTwo :
                    (n.rentalItemID = 2 \/ n.returnedQuantity = 2)
                    /\ receive_marked_items(1, <<m, n>>)
                    => res'.code = 400 /\ db' = db]_vars

\* A pickup was refused at its second entry, which chose the instance its
\* first entry had taken; the instance is still Available and the line whole.
C14_Witness ==
    /\ res.op = "mark_items_for_rental" /\ res.code = 400
    /\ res.detail = "Duplicate instance ID across marked lines."
    /\ instStatus[2] = "Available"
    /\ Len(items) = 2
    /\ items[1].Quantity = 2 /\ items[1].state = "Pending Pickup"
    /\ rentals[1].Status = "Reserved"

\* What the specification requires of an extension of a rental to a new end
\* date: the rental is Active after overdue promotion, the date is not before
\* the start, every bound instance that requires certification is calibrated
\* up to the date, and no bound instance is referenced by a line of another
\* blocking rental whose range meets [start, new end].
MayExtend(rid, newEndDate) ==
    /\ Promoted(rentals[rid]) = "Active"
    /\ newEndDate >= rentals[rid].StartDate
    /\ \A i \in BoundTo(rid) :
          /\ RequiresCertification(i) =>
                NextCalibration(i) # 0 /\ NextCalibration(i) >= newEndDate
          /\ ~\E k \in 1..Len(items) :
                 /\ items[k].ToolInstanceID = i
                 /\ items[k].RentalID # rid
                 /\ Canonical(rentals[items[k].RentalID].Status) \in Blocking
                 /\ rentals[items[k].RentalID].StartDate <= newEndDate
                 /\ rentals[items[k].RentalID].EndDate >= rentals[rid].StartDate

\* Two line tables that differ at most in the line totals.
SameButCost(a, b) ==
    /\ Len(a) = Len(b)
    /\ \A k \in 1..Len(a) : [a[k] EXCEPT !.TotalCost = 0] = [b[k] EXCEPT !.TotalCost = 0]

\* C15: an extension succeeds exactly when the rental is Active after overdue
\* promotion, the new end date is not before the start, the bound instances
\* are calibrated up to it and none is held by another blocking rental over
\* the extended range; a success changes the end date and the costs only; a
\* refusal changes nothing.
C15_ExtendChecksThenMovesEnd ==
    [][res = NoResponse /\ res'.op = "extend_rental" =>
          \A e \in 1..MaxDate :
              extend_rental(1, e) =>
                 /\ res'.code = 200 <=> MayExtend(1, e)
                 /\ res'.code = 200 =>
                       /\ rentals' = [rentals EXCEPT
                                        ![1].EndDate = e,
                                        ![1].TotalCost = rentals'[1].TotalCost]
                       /\ SameButCost(items, items')
                       /\ UNCHANGED <<instStatus, notifications>>
                 /\ res'.code # 200 => db' = db]_vars

\* An extension to the second day was refused because the other rental, which
\* is Reserved from that day, holds the same instance.
C15_Witness ==
    /\ res.op = "extend_rental" /\ res.code = 400
    /\ res.detail = "Tool instance is already reserved for that extension range."
    /\ rentals[1].Status = "Active" /\ rentals[1].EndDate = 1
    /\ rentals[2].Status = "Reserved" /\ rentals[2].StartDate = 2
    /\ items[1].ToolInstanceID = 1 /\ items[2].ToolInstanceID = 1

\* C16: a forced extension of a rental that is not Closed, Cancelled or Lost
\* to a date not before the start succeeds whatever the calibration and the
\* other rentals, and sets the end date; a rental that is Overdue after
\* promotion becomes Active when the new end date is today or later, and any
\* other keeps its status; on a Closed, Cancelled or Lost rental it fails and
\* changes nothing.
C16_ForceExtendOnlyChecksState ==
    [][res = NoResponse /\ res'.op = "force_extend_rental" =>
          \A e \in 1..MaxDate :
              force_extend_rental(1, e) =>
                 LET current == Promoted(rentals[1])
                 IN /\ current \in {"Closed", "Cancelled", "Lost"} =>
                          res'.code = 400 /\ db' = db
                    /\ current \notin {"Closed", "Cancelled", "Lost"}
                          /\ e >= rentals[1].StartDate =>
                          /\ res'.code = 200
                          /\ rentals' = [rentals EXCEPT
                                           ![1].EndDate = e,
                                           ![1].Status =
                                               IF current = "Overdue" /\ e >= today
                                               THEN "Active" ELSE current,
                                           ![1].TotalCost = rentals'[1].TotalCost]
                          /\ SameButCost(items, items')
                          /\ UNCHANGED <<instStatus, notifications>>]_vars

\* A forced extension has moved an Overdue rental's end to today or later and
\* made it Active, although the other rental holds the same instance over
\* that range.
C16_Witness ==
    /\ res.op = "force_extend_rental" /\ res.code = 200
    /\ rentals[1].Status = "Active" /\ rentals[1].ActualEnd = 0
    /\ today = 2 /\ rentals[1].EndDate = 2
    /\ rentals[2].Status = "Reserved"
    /\ items[1].ToolInstanceID = items[2].ToolInstanceID

\* C17: a cancel of a rental that is Reserved does what a rejection with a
\* reason does: the rental is stored Closed, every instance bound to it with
\* status Reserved becomes Available, one ReservationRejected notification is
\* queued and no line changes; a cancel of an Offer stores it Closed and
\* changes no line and no instance; a cancel of a rental in any other status
\* is refused with 400 and changes nothing.
C17_CancelRejectsOrClosesOffer ==
    [][res = NoResponse /\ res'.op = "cancel_rental" =>
          LET rid == res'.rid
              current == Promoted(rentals[rid])
          IN /\ current = "Reserved" =>
                   /\ res'.code = 200
                   /\ rentals' = [rentals EXCEPT ![rid].Status = "Closed"]
                   /\ \A i \in Instances : instStatus'[i] =
                         IF i \in BoundTo(rid) /\ instStatus[i] = "Reserved"
                         THEN "Available" ELSE instStatus[i]
                   /\ notifications' = Append(notifications,
                         [RentalID |-> rid, NotificationType |-> "ReservationRejected"])
                   /\ items' = items
             /\ current = "Offer" =>
                   /\ res'.code = 200
                   /\ rentals' = [rentals EXCEPT ![rid].Status = "Closed"]
                   /\ UNCHANGED <<items, instStatus, notifications>>
             /\ current \notin {"Reserved", "Offer"} =>
                   res'.code = 400 /\ db' = db]_vars

\* A cancel has closed an approved reservation, released its instance and
\* queued the rejection after the approval.
C17_Witness ==
    /\ res.op = "cancel_rental" /\ res.code = 200
    /\ rentals[res.rid].Status = "Closed"
    /\ \E i \in BoundTo(res.rid) : instStatus[i] = "Available"
    /\ Len(notifications) = 2
    /\ notifications[1].NotificationType = "ReservationApproved"
    /\ notifications[2].NotificationType = "ReservationRejected"

\* C18: a return is accepted exactly from Active and Overdue (after overdue
\* promotion) and a forced return exactly from a status other than Closed,
\* Cancelled and Lost; an accepted one stores the rental as Returned with
\* today as its actual end and leaves every instance bound to one of its
\* lines Available; a refused one changes nothing.
C18_ReturnReleasesEverything ==
    [][res = NoResponse /\ res'.op \in {"return_rental", "force_return_rental"} =>
          LET rid == res'.rid
              current == Promoted(rentals[rid])
              accepted == IF res'.op = "return_rental"
                          THEN current \in {"Active", "Overdue"}
                          ELSE current \notin {"Closed", "Cancelled", "Lost"}
          IN /\ res'.code = 200 <=> accepted
             /\ res'.code = 200 =>
                   /\ rentals'[rid].Status = "Returned"
                   /\ rentals'[rid].ActualEnd = today
                   /\ \A i \in BoundTo(rid) : instStatus'[i] = "Available"
             /\ res'.code # 200 => db' = db]_vars

\* A forced return of an approved reservation that was never picked up has
\* made the rental Returned and its reserved instance Available.
C18_Witness ==
    /\ res.op = "force_return_rental" /\ res.code = 200
    /\ rentals[res.rid].Status = "Returned"
    /\ rentals[res.rid].ActualStart = 0
    /\ rentals[res.rid].ActualEnd = today
    /\ \E k \in 1..Len(items) :
          /\ items[k].RentalID = res.rid /\ items[k].ToolInstanceID # 0
          /\ items[k].state = "Reserved"
          /\ instStatus[items[k].ToolInstanceID] = "Available"

\* The line is an unbound line of the rental with units left, and the mark
\* sets at least one and at most that many units.
ReceivableUnbound(mark) ==
    /\ mark.rentalItemID \in 1..Len(items)
    /\ items[mark.rentalItemID].RentalID = 1
    /\ items[mark.rentalItemID].ToolInstanceID = 0
    /\ items[mark.rentalItemID].Quantity > 0
    /\ mark.returnedQuantity + mark.notReturnedQuantity > 0
    /\ mark.returnedQuantity + mark.notReturnedQuantity <= items[mark.rentalItemID].Quantity

\* The lines after the request are the lines before, followed by one new
\* unbound line of the given quantity in state Returned.
OneNewReturnedLine(quantity) ==
    /\ Len(items') = Len(items) + 1
    /\ items'[Len(items')].RentalID = 1
    /\ items'[Len(items')].ToolInstanceID = 0
    /\ items'[Len(items')].Quantity = quantity
    /\ items'[Len(items')].state = "Returned"

\* C19 as stated: a receipt of a returned and b not returned units on an
\* unbound line with r units left leaves the line with r - a - b units, in
\* state Pending Pickup when that is positive, and adds one Returned line of
\* a units.
C19_ReceiveDeductsBoth ==
    [][res = NoResponse /\ res'.op = "receive_marked_items" =>
          \A mark \in ReceiveMarkOfLine :
              /\ ReceivableUnbound(mark)
              /\ mark.returnedQuantity > 0
              /\ receive_marked_items(1, <<mark>>)
              /\ res'.code = 200
              => LET k == mark.rentalItemID
                     left == items[k].Quantity - mark.returnedQuantity
                                 - mark.notReturnedQuantity
                 IN /\ items'[k].Quantity = left
                    /\ left > 0 => items'[k].state = "Pending Pickup"
                    /\ OneNewReturnedLine(mark.returnedQuantity)]_vars

\* C19: a receipt of a > 0 returned and b not returned units on an unbound
\* line with r units left leaves the line with r - a units, in state Pending
\* Pickup exactly when b = 0 and r - a > 0 and in state Not Returned when
\* b > 0, and adds exactly one Returned line of a units, so that the units of
\* the two lines are the r there were; for r = 5, a = 2, b = 1 the line is
\* left with 3 units in state Not Returned beside a new Returned line of 2.
C19_ReceiveDeductsReturned ==
    [][res = NoResponse /\ res'.op = "receive_marked_items" =>
          \A mark \in ReceiveMarkOfLine :
              /\ ReceivableUnbound(mark)
              /\ mark.returnedQuantity > 0
              /\ receive_marked_items(1, <<mark>>)
              /\ res'.code = 200
              => LET k == mark.rentalItemID
                     r == items[k].Quantity
                     a == mark.returnedQuantity
                     b == mark.notReturnedQuantity
                 IN /\ items'[k].Quantity = r - a
                    /\ items'[k].state = "Pending Pickup" <=> b = 0 /\ r - a > 0
                    /\ b > 0 => items'[k].state = "Not Returned"
                    /\ OneNewReturnedLine(a)
                    /\ items'[k].Quantity + items'[Len(items')].Quantity = r
                    /\ r = 5 /\ a = 2 /\ b = 1 =>
                          /\ items'[k].Quantity = 3
                          /\ items'[k].state = "Not Returned"
                          /\ items'[Len(items')].Quantity = 2]_vars

\* Of the five units of the first line two came back and one did not: the
\* line holds three units in state Not Returned and a Returned line of two
\* units follows the stored lines.
C19_Witness ==
    /\ res.op = "receive_marked_items" /\ res.code = 200
    /\ Len(items) = 3
    /\ items[1].ToolInstanceID = 0 /\ items[1].Quantity = 3
    /\ items[1].state = "Not Returned"
    /\ items[3].ToolInstanceID = 0 /\ items[3].Quantity = 2
    /\ items[3].state = "Returned"

\* C20: a receipt of a returned and b not returned units (a + b > 0,
\* a + b <= r) on an unbound line with r units left of a rental that is
\* Active or Overdue succeeds; it adds one unbound line of a units in state
\* Returned when a > 0 and no line when a = 0; it leaves the source line with
\* r - a units, in state Not Returned if b > 0, otherwise Pending Pickup if
\* r - a > 0, otherwise Returned; every other line keeps all but its total.
C20_UnboundReceiveSplitsTheLine ==
    [][res = NoResponse /\ res'.op = "receive_marked_items" =>
          \A mark \in ReceiveMarkOfLine :
              /\ ReceivableUnbound(mark)
              /\ Promoted(rentals[1]) \in {"Active", "Overdue"}
              /\ receive_marked_items(1, <<mark>>)
              => LET k == mark.rentalItemID
                     r == items[k].Quantity
                     a == mark.returnedQuantity
                     b == mark.notReturnedQuantity
                 IN /\ res'.code = 200
                    /\ IF a > 0 THEN OneNewReturnedLine(a)
                       ELSE Len(items') = Len(items)
                    /\ items'[k].Quantity = r - a
                    /\ items'[k].state = IF b > 0 THEN "Not Returned"
                                         ELSE IF r - a > 0 THEN "Pending Pickup"
                                         ELSE "Returned"
                    /\ items'[k].ToolInstanceID = 0
                    /\ \A j \in 1..Len(items) : j # k =>
                          [items'[j] EXCEPT !.TotalCost = 0]
                              = [items[j] EXCEPT !.TotalCost = 0]]_vars

\* Nothing came back of the two units of the first line and one is not
\* returned: no line was added and the line holds its two units in state
\* Not Returned.
C20_Witness ==
    /\ res.op = "receive_marked_items" /\ res.code = 200
    /\ Len(items) = 2
    /\ items[1].ToolInstanceID = 0 /\ items[1].Quantity = 2
    /\ items[1].state = "Not Returned"

\* C21: a line bound to an instance that a pickup has marked Picked Up, with
\* the instance In Rental, of a rental that is Active or Overdue can be
\* received: a receipt of one returned unit on it succeeds, makes the
\* instance Available and leaves the line with quantity 0 in state Returned;
\* a receipt of one not returned unit succeeds, marks the line Not Returned
\* and leaves the instance In Rental.
C21_PickedUpBoundLineIsReceivable ==
    [][res = NoResponse /\ res'.op = "receive_marked_items" =>
          \A k \in 1..Len(items), b \in {0, 1} :
              /\ items[k].RentalID = 1
              /\ items[k].ToolInstanceID # 0
              /\ items[k].state = "Picked Up"
              /\ instStatus[items[k].ToolInstanceID] = "In Rental"
              /\ Promoted(rentals[1]) \in {"Active", "Overdue"}
              /\ receive_marked_items(1, <<[rentalItemID |-> k, returnedQuantity |-> 1 - b,
                                            notReturnedQuantity |-> b]>>)
              => /\ res'.code = 200
                 /\ b = 0 => /\ instStatus'[items[k].ToolInstanceID] = "Available"
                             /\ items'[k].Quantity = 0
                             /\ items'[k].state = "Returned"
                 /\ b = 1 => /\ instStatus'[items[k].ToolInstanceID] = "In Rental"
                             /\ items'[k].state = "Not Returned"]_vars

\* A line of the rental holds units that are still out: its quantity is
\* positive and it is not the record of a receipt (state Returned).
RetainsQuantity(its, rid) ==
    \E k \in 1..Len(its) :
        /\ its[k].RentalID = rid
        /\ its[k].Quantity > 0
        /\ its[k].state # "Returned"

\* C22: after a successful receipt, if no line of the rental retains a
\* quantity the rental is Returned with today as its actual end and every
\* instance bound to one of its lines is Available; if some line retains a
\* quantity the rental keeps its status (after overdue promotion).
C22_ReceiveCompletesWhenNothingIsOut ==
    [][/\ res = NoResponse
       /\ res'.op = "receive_marked_items"
       /\ res'.code = 200
       => IF RetainsQuantity(items', res'.rid)
          THEN rentals'[res'.rid].Status = Promoted(rentals[res'.rid])
          ELSE /\ rentals'[res'.rid].Status = "Returned"
               /\ rentals'[res'.rid].ActualEnd = today
               /\ \A i \in BoundTo(res'.rid) : instStatus'[i] = "Available"]_vars

\* The lines of a rental in the order they are stored.
LinesOf(its, rid) == SelectSeq(its, LAMBDA line : line.RentalID = rid)

\* C23: a checkout with valid dates of a stored number whose rental is an
\* Offer succeeds, adds exactly one rental, in status Reserved, whose lines
\* are, one for each offer line in order, unbound lines of the same tool,
\* quantity and daily cost, leaves the offer Closed and every other stored
\* row as it was; a checkout of a number that is not stored, or whose rental
\* is not an Offer, is refused with 404 and changes nothing.
C23_CheckoutConvertsTheOfferOnce ==
    [][res = NoResponse /\ res'.op = "checkout_offer" =>
          \A n \in {<<"YY", 1>>, <<"RNT", 1>>}, a \in 1..MaxDate, b \in 1..MaxDate :
              checkout_offer(n, a, b) =>
                 LET offers == {r \in 1..Len(rentals) :
                                   rentals[r].RentalNumber = n
                                       /\ Canonical(rentals[r].Status) = "Offer"}
                     new == Len(rentals) + 1
                 IN /\ offers = {} => res'.code = 404 /\ db' = db
                    /\ offers # {} /\ a <= b =>
                          /\ res'.code = 200
                          /\ Len(rentals') = new
                          /\ rentals'[new].Status = "Reserved"
                          /\ \A o \in offers :
                                /\ rentals' = Append([rentals EXCEPT ![o].Status = "Closed"],
                                                     rentals'[new])
                                /\ LinesOf(items', o) = LinesOf(items, o)
                                /\ Len(LinesOf(items', new)) = Len(LinesOf(items, o))
                                /\ \A k \in 1..Len(LinesOf(items, o)) :
                                      /\ LinesOf(items', new)[k].ToolID
                                            = LinesOf(items, o)[k].ToolID
                                      /\ LinesOf(items', new)[k].Quantity
                                            = LinesOf(items, o)[k].Quantity
                                      /\ LinesOf(items', new)[k].DailyCost
                                            = LinesOf(items, o)[k].DailyCost
                                      /\ LinesOf(items', new)[k].ToolInstanceID = 0
                          /\ Len(items') = Len(items) + Len(LinesOf(items', new))
                          /\ UNCHANGED <<instStatus, notifications>>]_vars

\* The offer of two units has been checked out into a reservation of two
\* units and a second checkout of its number has been refused.
C23_Witness ==
    /\ res.op = "checkout_offer" /\ res.code = 404
    /\ Len(rentals) = 2
    /\ rentals[1].Status = "Closed" /\ rentals[1].RentalNumber = <<"YY", 1>>
    /\ rentals[2].Status = "Reserved"
    /\ Len(items) = 2 /\ items[2].RentalID = 2 /\ items[2].Quantity = 2

\* C24: in every stored state, a reservation that a checkout has created
\* from an offer exists only while that offer is stored as Closed, and the
\* checkouts of one offer have created at most one reservation.
C24_CheckoutIsOneTransaction ==
    /\ \A p \in DOMAIN inflight :
          inflight[p].op = "checkout_offer" /\ inflight[p].created # 0
              => rentals[inflight[p].offer].Status = "Closed"
    /\ \A p, q \in DOMAIN inflight :
          /\ inflight[p].op = "checkout_offer" /\ inflight[p].created # 0
          /\ inflight[q].op = "checkout_offer" /\ inflight[q].created # 0
          /\ inflight[p].offer = inflight[q].offer
          => p = q

\* C25: the stored rentals bear numbers that differ from one another.
C25_NumbersAreDistinct ==
    \A r, q \in 1..Len(rentals) :
        r # q => rentals[r].RentalNumber # rentals[q].RentalNumber

\* The sum over the lines of a rental of daily cost x days x quantity.
RECURSIVE LineTotals(_, _, _)
LineTotals(its, rid, days) ==
    IF its = <<>> THEN 0
    ELSE (IF Head(its).RentalID = rid
          THEN Head(its).DailyCost * days * Head(its).Quantity ELSE 0)
         + LineTotals(Tail(its), rid, days)

\* C26: after a successful create, approval, pickup, receipt, extension or
\* forced extension the stored total of the rental is the sum over all its
\* stored lines, those the operation created included, of daily cost x
\* max(1, end - start) x quantity.
C26_TotalIsTheSumOfTheLines ==
    [][/\ res = NoResponse
       /\ res'.code = 200
       /\ res'.op \in {"create_rental", "decide_rental", "mark_items_for_rental",
                       "receive_marked_items", "extend_rental", "force_extend_rental"}
       /\ res'.detail # "Reservation rejected"
       => rentals'[res'.rid].TotalCost =
             LineTotals(items', res'.rid,
                        Max(1, rentals'[res'.rid].EndDate - rentals'[res'.rid].StartDate))]_vars

\* The failures recorded for the account within the attempt window.
RecentFailures(key) ==
    SelectSeq(_AUTH_ATTEMPTS_BY_ACCOUNT[key],
              LAMBDA ts : ts >= now - AUTH_ATTEMPT_WINDOW_SECONDS)

\* C27: an account with AUTH_MAX_ATTEMPTS_PER_ACCOUNT failures within the
\* window is locked out, so that a ninth attempt is refused; while the
\* lockout lasts every login for the account is answered 429 with the seconds
\* left of the lockout, at least 1, as Retry-After (which cannot grow, the
\* end of the lockout standing still), and neither moves the end of the
\* lockout nor records a failure; the first login once the lockout is over is
\* admitted with no earlier failure left on the account.
C27_LockoutHoldsThenClears ==
    [][res = NoResponse /\ res'.op = "auth_login" =>
          \A key \in {"user:admin"}, verified \in BOOLEAN :
              auth_login("10.0.0.1", key, verified) =>
                 LET until == _AUTH_LOCKOUT_UNTIL_BY_ACCOUNT[key]
                 IN /\ Len(RecentFailures(key)) >= AUTH_MAX_ATTEMPTS_PER_ACCOUNT
                          => until > now /\ res'.code = 429
                    /\ res'.code = 401
                          /\ Len(_AUTH_ATTEMPTS_BY_ACCOUNT'[key]) >= AUTH_MAX_ATTEMPTS_PER_ACCOUNT
                          => _AUTH_LOCKOUT_UNTIL_BY_ACCOUNT'[key] = now + AUTH_LOCKOUT_SECONDS
                    /\ until > now =>
                          /\ res'.code = 429
                          /\ res'.numbers[1] >= 1
                          /\ res'.numbers[1] = Max(1, until - now)
                          /\ _AUTH_LOCKOUT_UNTIL_BY_ACCOUNT' = _AUTH_LOCKOUT_UNTIL_BY_ACCOUNT
                          /\ _AUTH_ATTEMPTS_BY_ACCOUNT' = _AUTH_ATTEMPTS_BY_ACCOUNT
                          /\ _AUTH_ATTEMPTS_BY_IP' = _AUTH_ATTEMPTS_BY_IP
                    /\ until # 0 /\ until <= now =>
                          /\ res'.code = IF verified THEN 200 ELSE 401
                          /\ _AUTH_ATTEMPTS_BY_ACCOUNT'[key] =
                                IF verified THEN <<>> ELSE <<now>>
                          /\ _AUTH_LOCKOUT_UNTIL_BY_ACCOUNT'[key] = 0]_vars

\* Eight failures at time 0 have locked the account until 900, and a login
\* at 300 is answered 429 with 600 seconds to wait.
C27_Witness ==
    /\ res.op = "auth_login" /\ res.code = 429
    /\ res.numbers = <<600>>
    /\ now = 300
    /\ _AUTH_LOCKOUT_UNTIL_BY_ACCOUNT["user:admin"] = AUTH_LOCKOUT_SECONDS
    /\ _AUTH_ATTEMPTS_BY_ACCOUNT["user:admin"] = <<0, 0, 0, 0, 0, 0, 0, 0>>

\* The failures recorded for the address within the attempt window.
RecentFailuresOfIp(ip) ==
    SelectSeq(_AUTH_ATTEMPTS_BY_IP[ip],
              LAMBDA ts : ts >= now - AUTH_ATTEMPT_WINDOW_SECONDS)

\* C28: within one attempt window no more than AUTH_MAX_ATTEMPTS_PER_ACCOUNT
\* failures are recorded for an account key and no more than
\* AUTH_MAX_ATTEMPTS_PER_IP for a client address, however the logins
\* interleave.
C28_ThresholdsHoldUnderInterleaving ==
    /\ \A key \in Accounts : Len(RecentFailures(key)) <= AUTH_MAX_ATTEMPTS_PER_ACCOUNT
    /\ \A ip \in Ips : Len(RecentFailuresOfIp(ip)) <= AUTH_MAX_ATTEMPTS_PER_IP

\* C29: a request that presents an issued token and no cookie is accepted
\* exactly while the token has neither expired nor been logged out; once
\* logout was called with the token every such request is answered 401,
\* before the expiry of the token and after it.
C29_LogoutRevokesTheToken ==
    [][res = NoResponse /\ res'.op = "auth_me" =>
          \A token \in issued :
              auth_me(token, FALSE) =>
                 /\ res'.code = 200 <=> token \notin loggedOut /\ now < token.expiresAt
                 /\ token \in loggedOut => res'.code = 401]_vars

\* A token issued at 0 and logged out is rejected halfway to its expiry.
C29_Witness ==
    /\ res.op = "auth_me" /\ res.code = 401
    /\ res.numbers = <<SESSION_TTL_SECONDS>>
    /\ now = SessionStep
    /\ \E token \in loggedOut : token.expiresAt = SESSION_TTL_SECONDS /\ token \in revoked

\* C30: kiosk_lend changes the store only for the PIN that verifies; with any
\* other PIN it creates no rental and changes no instance status, and a PIN
\* of four characters or more that fails verification is answered 401
\* "Invalid credentials." (a shorter one is refused as malformed before it is
\* verified).
C30_KioskLendRequiresTheValidPin ==
    [][res = NoResponse /\ res'.op = "kiosk_lend" =>
          \A pin \in Pins, a \in 1..MaxDate, b \in 1..MaxDate, req \in ReqLines :
              kiosk_lend(pin, a, b, req) =>
                 /\ pin # StoredPin =>
                       /\ db' = db
                       /\ res'.code \in {400, 401}
                 /\ pin # StoredPin /\ Len(pin) >= 4 =>
                       /\ res'.code = 401
                       /\ res'.detail = "Invalid credentials."
                 /\ db' # db => pin = StoredPin /\ res'.code = 200]_vars

\* A kiosk request with a wrong PIN was answered 401 and the store is empty
\* as before.
C30_Witness ==
    /\ res.op = "kiosk_lend" /\ res.code = 401
    /\ res.detail = "Invalid credentials."
    /\ rentals = <<>> /\ items = <<>>
    /\ \A i \in Instances : instStatus[i] = "Available"

\* The instances of the lines a request added for the rental.
Assigned(rid) ==
    {items'[k].ToolInstanceID :
        k \in {j \in (Len(items) + 1)..Len(items') :
                 items'[j].RentalID = rid /\ items'[j].ToolInstanceID # 0}}

\* C31: the instances an approval assigns for a tool are min(q, n) of the n
\* instances free over the rental's range, each of them ranked before every
\* free instance left out (more days of use, or as many and a lower
\* identifier); afterwards the assigned instances are Reserved and every
\* other instance has the status it had.
C31_ApproveAssignsTheTopRanked ==
    [][res = NoResponse /\ res'.op = "decide_rental" /\ res'.code = 200
           /\ res'.detail = "Reservation approved" =>
          LET rid == res'.rid
              free == {i \in Instances : Free(i, 1, rentals[rid].StartDate,
                                              rentals[rid].EndDate)}
              q == Outstanding(rid, 1, <<>>, Len(items))
          IN /\ Assigned(rid) \subseteq free
             /\ Cardinality(Assigned(rid)) =
                   IF q < Cardinality(free) THEN q ELSE Cardinality(free)
             /\ \A a \in Assigned(rid), b \in free \ Assigned(rid) :
                   \/ Usage(a) > Usage(b)
                   \/ Usage(a) = Usage(b) /\ a < b
             /\ \A i \in Instances :
                   instStatus'[i] = IF i \in Assigned(rid) THEN "Reserved"
                                    ELSE instStatus[i]]_vars

\* Instance 2 has days of use and instance 1 none: a request for one unit was
\* given instance 2 and instance 1 stayed Available.
C31_Witness ==
    /\ res.op = "decide_rental" /\ res.code = 200 /\ res.numbers = <<1, 0>>
    /\ Len(items) = 3
    /\ items[3].RentalID = 2 /\ items[3].ToolInstanceID = 2 /\ items[3].state = "Reserved"
    /\ Usage(1) = 0
    /\ instStatus[1] = "Available" /\ instStatus[2] = "Reserved"

\* A line added for the rental in state Picked Up.
PickedUpLine(line, rid, tool_instance_id, quantity) ==
    /\ line.RentalID = rid
    /\ line.ToolInstanceID = tool_instance_id
    /\ line.Quantity = quantity
    /\ line.state = "Picked Up"

\* C32: a successful pickup of p >= 1 units with the k instances named from an
\* unbound line holding r units has 1 <= p <= r and k <= p, adds one bound
\* line of quantity 1 in state Picked Up per named instance and sets the
\* instance In Rental, adds one unbound line of p - k units in state Picked
\* Up exactly when p > k, and leaves r - p units on the source line, which is
\* Fulfilled when nothing is left and Pending Pickup otherwise.
C32_PickupSplitsTheUnboundLine ==
    [][res = NoResponse /\ res'.op = "mark_items_for_rental" /\ res'.code = 200 =>
          \A rid \in 1..Len(rentals), marks \in PicksOne \ {<<>>} :
              /\ mark_items_for_rental(rid, marks)
              /\ marks[1].pickedQuantity >= 1
              /\ items[marks[1].rentalItemID].ToolInstanceID = 0
              => LET mark == marks[1]
                     src_ == mark.rentalItemID
                     r == items[src_].Quantity
                     p == mark.pickedQuantity
                     ids == mark.toolInstanceIDs
                     k == Len(ids)
                 IN /\ p <= r /\ k <= p
                    /\ Len(items') = Len(items) + k + (IF p > k THEN 1 ELSE 0)
                    /\ \A n \in 1..k :
                          /\ PickedUpLine(items'[Len(items) + n], rid, ids[n], 1)
                          /\ instStatus'[ids[n]] = "In Rental"
                    /\ p > k => PickedUpLine(items'[Len(items) + k + 1], rid, 0, p - k)
                    /\ items'[src_].Quantity = r - p
                    /\ items'[src_].state = IF r - p = 0 THEN "Fulfilled"
                                            ELSE "Pending Pickup"
                    /\ \A j \in 1..Len(items) :
                          j # src_ => items'[j].Quantity = items[j].Quantity
                                      /\ items'[j].state = items[j].state]_vars

\* Two units were picked from a line of two with instance 1 named: one line
\* bound to instance 1, one unbound line of one unit, the source Fulfilled.
C32_Witness ==
    /\ res.op = "mark_items_for_rental" /\ res.code = 200
    /\ Len(items) = 3
    /\ items[1].ToolInstanceID = 0 /\ items[1].Quantity = 0 /\ items[1].state = "Fulfilled"
    /\ PickedUpLine(items[2], 1, 1, 1)
    /\ PickedUpLine(items[3], 1, 0, 1)
    /\ instStatus[1] = "In Rental"

\* C33: no line holds a negative quantity, and a line bound to an instance
\* holds 0 or 1.
C33_QuantitiesStayInRange ==
    \A k \in 1..Len(items) :
        /\ items[k].Quantity >= 0
        /\ items[k].ToolInstanceID # 0 => items[k].Quantity \in {0, 1}

\* After an approval, a pickup and a receipt: a bound line that is back with
\* quantity 0 beside a bound line still holding its unit.
C33_Witness ==
    /\ res.op = "receive_marked_items" /\ res.code = 200
    /\ \E k \in 1..Len(items) :
          items[k].ToolInstanceID # 0 /\ items[k].Quantity = 0 /\ items[k].state = "Returned"
    /\ \E k \in 1..Len(items) : items[k].ToolInstanceID # 0 /\ items[k].Quantity = 1

\* Two lines of different rentals bound to one instance.
SharedInstance(k1, k2) ==
    /\ items[k1].ToolInstanceID # 0
    /\ items[k1].ToolInstanceID = items[k2].ToolInstanceID
    /\ items[k1].RentalID # items[k2].RentalID

NoSharedBlocking ==
    \A k1 \in 1..Len(items), k2 \in 1..Len(items) :
        /\ SharedInstance(k1, k2)
        /\ Canonical(rentals[items[k1].RentalID].Status) \in Blocking
        /\ Canonical(rentals[items[k2].RentalID].Status) \in Blocking
        => ~RangesOverlap(rentals[items[k1].RentalID], rentals[items[k2].RentalID])

\* C34: served one request at a time and without forced extensions, no step
\* leads to a state in which an instance is referenced by lines of two
\* rentals that are both Reserved, Active or Overdue over overlapping date
\* ranges, and no rental that has left these statuses returns to them.
C34_NoDoubleBookingWithoutForce ==
    [][/\ NoSharedBlocking'
       /\ \A rid \in 1..Len(rentals) :
             Canonical(rentals[rid].Status) \notin Blocking
                => Canonical(rentals'[rid].Status) \notin Blocking]_vars

\* Instance 1 is bound to lines of both rentals, which are blocking over
\* ranges that do not overlap, and an extension of the first rental into the
\* range of the second was refused.
C34_Witness ==
    /\ res.op = "extend_rental" /\ res.rid = 1
    /\ res.detail = "Tool instance is already reserved for that extension range."
    /\ Len(rentals) = 2
    /\ rentals[1].EndDate < rentals[2].StartDate
    /\ Canonical(rentals[1].Status) \in Blocking
    /\ Canonical(rentals[2].Status) \in Blocking
    /\ \E k1 \in 1..Len(items), k2 \in 1..Len(items) :
          SharedInstance(k1, k2) /\ items[k1].RentalID = 1

\* C35: approvals of two Reserved rentals over overlapping ranges never assign
\* one instance to both, however their steps interleave.
C35_ConcurrentApprovesAssignApart ==
    \A k1 \in 1..Len(items), k2 \in 1..Len(items) :
        /\ SharedInstance(k1, k2)
        /\ rentals[items[k1].RentalID].Status = "Reserved"
        /\ rentals[items[k2].RentalID].Status = "Reserved"
        /\ RangesOverlap(rentals[items[k1].RentalID], rentals[items[k2].RentalID])
        => items[k1].state # "Reserved" \/ items[k2].state # "Reserved"

\* The instances in status Reserved that lines of the rental reference.
ReservedFor(rid) ==
    {i \in Instances :
        /\ instStatus[i] = "Reserved"
        /\ \E k \in RentalItems(items, rid) : items[k].ToolInstanceID = i}

\* C36: while a rental is Reserved the instances held Reserved for it are no
\* more than the units its lines ask for, and no instance is still Reserved
\* whose only line is a Superseded line of quantity 0, however many times the
\* rental is approved.
C36_ReapprovalReservesNoMore ==
    \A rid \in 1..Len(rentals) :
        rentals[rid].Status = "Reserved" =>
           /\ Cardinality(ReservedFor(rid)) <= SumQty(items, RentalItems(items, rid))
           /\ \A k \in RentalItems(items, rid) :
                 /\ items[k].ToolInstanceID # 0
                 /\ items[k].Quantity = 0
                 /\ items[k].state = "Superseded"
                 => instStatus[items[k].ToolInstanceID] # "Reserved"

\* The instance is Reserved or In Rental for a rental other than rid: a line
\* of a Reserved, Active or Overdue rental holds its unit on it.
HeldForAnother(i, rid) ==
    /\ instStatus[i] \in {"Reserved", "In Rental"}
    /\ \E k \in 1..Len(items) :
          /\ items[k].RentalID # rid
          /\ items[k].ToolInstanceID = i
          /\ items[k].state \in {"Reserved", "Picked Up"}
          /\ Canonical(rentals[items[k].RentalID].Status) \in Blocking

\* C37: a return or a forced return of a rental leaves the status of every
\* instance that is Reserved or In Rental for another rental as it is.
C37_ReturnLeavesOtherRentalsInstances ==
    [][res = NoResponse /\ res'.op \in {"return_rental", "force_return_rental"}
           /\ res'.code = 200 =>
          \A i \in Instances :
              HeldForAnother(i, res'.rid) => instStatus'[i] = instStatus[i]]_vars

\* An earlier receipt left its record: an unbound line of the rental in state
\* Returned that holds the units it took back.
EarlierReceipt(its, rid) ==
    \E k \in 1..Len(its) :
        /\ its[k].RentalID = rid
        /\ its[k].ToolInstanceID = 0
        /\ its[k].state = "Returned"
        /\ its[k].Quantity > 0

\* C38: when a receipt that follows earlier partial receipts takes back the
\* last units that were out, none of them reported as not returned, the
\* rental is Returned and every instance bound to its lines is Available;
\* the records of the earlier receipts do not keep it open.
C38_LastReceiptCompletesTheRental ==
    [][/\ res = NoResponse
       /\ res'.op = "receive_marked_items"
       /\ res'.code = 200
       /\ EarlierReceipt(items, res'.rid)
       /\ ~RetainsQuantity(items', res'.rid)
       /\ \A k \in 1..Len(items') :
             items'[k].RentalID = res'.rid => items'[k].state # "Not Returned"
       => /\ rentals'[res'.rid].Status = "Returned"
          /\ \A i \in BoundTo(res'.rid) : instStatus'[i] = "Available"]_vars

\* C39: a receipt is accepted only against lines that are Picked Up or Not
\* Returned; a request naming a line in any other lifecycle state is
\* refused.
C39_ReceiveOnlyWhatWasPickedUp ==
    [][res = NoResponse /\ res'.op = "receive_marked_items" /\ res'.code = 200 =>
          \A rid \in 1..Len(rentals), marks \in ReceiveMarks \ {<<>>} :
              receive_marked_items(rid, marks) =>
                 \A n \in 1..Len(marks) :
                     items[marks[n].rentalItemID].state
                         \in {"Picked Up", "Not Returned"}]_vars

\* C40: every mapping get_employee_directory returns is the complete result
\* of one successful fetch, never empty, partial or mixed, whatever other
\* calls refresh the cache meanwhile; an employee every fetch lists is found.
C40_DirectoryIsOneCompleteSnapshot ==
    LET fetched == {inflight[q].parsed[1] :
                       q \in {q \in DOMAIN inflight : inflight[q].parsed # <<>>}}
    IN \A p \in DOMAIN inflight :
          /\ inflight[p].op = "get_employee_directory"
          /\ inflight[p].pc = "done"
          /\ inflight[p].code # 503
          => /\ inflight[p].directory \in fetched
             /\ (\A d \in Directories : inflight[p].employee_id \in d)
                    => inflight[p].code = 200

====
